---- MODULE Spec2Model ----
(***************************************************************************)
(* A model of the layer / graph execution engine of tiny-dnn:              *)
(*   - Tensor storage and the Parameter object (tiny_dnn/parameter.h),     *)
(*   - layer::setup / init_parameters / connect (tiny_dnn/layers/layer.h), *)
(*   - the forward protocol and the batch-dimension bookkeeping,           *)
(*   - layer::update_parameters with the optimizer it drives.              *)
(*                                                                         *)
(* float_t values are modelled by integers.  Where update_parameters       *)
(* scales a merged gradient by 1/batch_size, the batch sizes are powers of *)
(* two and the gradient entries multiples of them, so that every product   *)
(* the code computes is exact both in float_t and in the model.            *)
(***************************************************************************)
EXTENDS Integers, Sequences, FiniteSets, TLC

VARIABLES
  layers,   \* layer id -> the layer object (shapes, edge slots, Parameters)
  edges,    \* edge id  -> the edge object (sequence; an edge is never freed
            \*             while a layer refers to it)
  lastOp,   \* the last call made on the program and the error it threw
  events,   \* what the last call did, in order (optimizer calls, hooks)
  param,    \* a stand-alone Parameter object (SpecParam)
  dst,      \* the caller's buffer handed to merge_grads (SpecParam)
  trav,     \* the locals of a running graph_traverse (SpecTrav)
  ctx       \* the operands and buffers of a kernel call (SpecConv)

\* the variables of the specifications that have no layer and no
\* stand-alone Parameter
otherVars == <<trav, ctx>>

vars == <<layers, edges, lastOp, events, param, dst, otherVars>>

-----------------------------------------------------------------------------
(* Bounds of the model *)

\* largest number of rows (samples) of a gradient handed to set_grad
MaxRows == 3

-----------------------------------------------------------------------------
(* Tensor<float_t>: a 1-D tensor is a sequence of values, a 2-D tensor a    *)
(* sequence of rows.                                                        *)

Fill1(n, v) == [i \in 1..n |-> v]

Fill2(rows, cols, v) == [r \in 1..rows |-> Fill1(cols, v)]

\* Tensor::fill (tensor.h): every element becomes value, the shape is kept
fill(t, v) == [r \in 1..Len(t) |-> [c \in 1..Len(t[r]) |-> v]]

\* Tensor::reshape to {n}: storage resized; elements that stay keep their
\* value, elements that are new hold fv, a value the caller cannot choose.
reshape1(t, n, fv) == [i \in 1..n |-> IF i <= Len(t) THEN t[i] ELSE fv]

\* Tensor::reshape to {rows, cols}: the storage is resized and read in
\* row-major order under the new shape, so the flat prefix is kept (a row
\* keeps its values when the width does not change) and new elements hold fv
reshape2(t, rows, cols, fv) ==
  LET w == IF Len(t) = 0 THEN 0 ELSE Len(t[1])
      n == Len(t) * w
  IN  [r \in 1..rows |->
         [c \in 1..cols |->
            LET k == (r - 1) * cols + c
            IN  IF k <= n THEN t[((k - 1) \div w) + 1][((k - 1) % w) + 1]
                          ELSE fv]]

\* Tensor::resize_axis(value, 0) on a 2-D tensor of the given width
resize_axis(t, value, cols, fv) == reshape2(t, value, cols, fv)

RECURSIVE ColumnSum(_, _, _)
\* the sum of column i over rows 1..r of a 2-D tensor
ColumnSum(t, i, r) == IF r = 0 THEN 0 ELSE ColumnSum(t, i, r - 1) + t[r][i]

IsZero2(t) == \A r \in 1..Len(t) : \A c \in 1..Len(t[r]) : t[r][c] = 0

-----------------------------------------------------------------------------
(* Parameter (parameter.h) *)

\* parameter::parameter: data_({size()}), grad_({1, size()}); the storage
\* is not initialized, gv is what it happens to hold.
NewParameter(type, size, trainable, gv) ==
  [type |-> type, size |-> size, trainable |-> trainable,
   initialized |-> FALSE,
   data |-> Fill1(size, gv), grad |-> Fill2(1, size, gv)]

\* a set_dims that reshapes the data and leaves the gradient as it is
set_dims_data_only(p, width, height, depth, n_fmaps, fv) ==
  LET sz == width * height * depth * n_fmaps
  IN  [p EXCEPT !.size = sz, !.data = reshape1(p.data, sz, fv)]

\* parameter::set_dims: size() becomes width*height*depth*n_fmaps, the data
\* is reshaped to {size()} and the gradient to {grad_.shape()[0], size()}
set_dims(p, width, height, depth, n_fmaps, fv) ==
  LET sz == width * height * depth * n_fmaps
  IN  [p EXCEPT !.size = sz,
                !.data = reshape1(p.data, sz, fv),
                !.grad = reshape2(p.grad, Len(p.grad), sz, fv)]

\* parameter::set_data
set_data(p, data) == [p EXCEPT !.data = data]

\* parameter::set_grad
set_grad(p, grad) == [p EXCEPT !.grad = grad]

\* parameter::resize_grad
resize_grad(p, sample_count, fv) ==
  [p EXCEPT !.grad = reshape2(p.grad, sample_count, p.size, fv)]

\* parameter::clear_grads
parameter_clear_grads(p) == [p EXCEPT !.grad = fill(p.grad, 0)]

\* vectorize::reduce as merge_grads uses it: dst[i] += src[i] for i < size
reduce(src, size, d) ==
  [i \in 1..Len(d) |-> IF i <= size THEN d[i] + src[i] ELSE d[i]]

RECURSIVE merge_loop(_, _, _, _)
\* the loop of merge_grads over sample = 1 .. sample_count-1 (0-based)
merge_loop(grad, sample, sz, d) ==
  IF sample > Len(grad) THEN d
  ELSE merge_loop(grad, sample + 1, sz, reduce(grad[sample], sz, d))

\* a merge_grads that adds row 0 to what dst holds instead of copying it
merge_grads_accumulate(p, d) ==
  LET grad_head == p.grad[1]
      sz        == Len(grad_head)
      d1        == reshape1(d, sz, 0)
  IN  merge_loop(p.grad, 1, sz, d1)

\* parameter::merge_grads(dst): the new contents of *dst
merge_grads(p, d) ==
  LET grad_head == p.grad[1]
      sz        == Len(grad_head)
      d1        == reshape1(d, sz, 0)
      d2        == [i \in 1..Len(d1) |-> grad_head[i]]   \* std::copy
  IN  merge_loop(p.grad, 2, sz, d2)

-----------------------------------------------------------------------------
(* shape3d, edge, layer (layer.h; node.h for the edge object) *)

Null == 0

\* shape3d::size(): width * height * depth
shape_size(s) == s[1] * s[2] * s[3]

\* edge::edge(prev, shape, vtype): one row of shape.size() values for the
\* data tensor and for the gradient tensor, no consumer yet
NewEdge(prev, shape, vtype) ==
  [prev_ |-> prev, shape_ |-> shape, vtype_ |-> vtype, next_ |-> <<>>,
   data_ |-> Fill2(1, shape_size(shape), 0),
   grad_ |-> Fill2(1, shape_size(shape), 0)]

\* edge::add_next_node
add_next_node(e, l) == [e EXCEPT !.next_ = Append(@, l)]

\* edge::clear_grads
edge_clear_grads(e) == [e EXCEPT !.grad_ = fill(@, 0)]

\* layer::layer(in_type, out_type) followed by the subclass constructor:
\* node(in_type.size(), out_type.size()) leaves every edge slot null;
\* weight_init_ is xavier and bias_init_ is constant (0) by default.
NewLayer(kind, in_type, out_type, in_shapes, out_shapes, params) ==
  [kind |-> kind, in_type_ |-> in_type, out_type_ |-> out_type,
   in_shape_ |-> in_shapes, out_shape_ |-> out_shapes,
   prev_ |-> [i \in 1..Len(in_type) |-> Null],
   next_ |-> [i \in 1..Len(out_type) |-> Null],
   parameters_ |-> params,
   weight_init_ |-> [kind |-> "xavier", value |-> 0],
   bias_init_ |-> [kind |-> "constant", value |-> 0],
   parameters_diff_ |-> <<>>]

in_channels_(L) == Len(L.in_type_)

out_channels_(L) == Len(L.out_type_)

\* in_shape(): the subclass's list of input shapes
in_shape(L) == L.in_shape_

\* out_shape(): activation_layer returns {in_shape_}, other layers their own
out_shape(L) == IF L.kind = "activation" THEN L.in_shape_ ELSE L.out_shape_

\* The program state a call works on, and the error it throws ("none" when
\* it returns normally).  rv is the value a random initializer draws and
\* fv the value fresh tensor storage holds during this call.
St(ls, es) == [layers |-> ls, edges |-> es, err |-> "none", events |-> <<>>]

Throw(st, what) == [st EXCEPT !.err = what]

\* parameter_init::function::fill as Parameter::initialize uses it
init_fill(f, n, rv) ==
  IF f.kind = "constant" THEN Fill1(n, f.value) ELSE Fill1(n, rv)

\* Parameter::initialize(f, fan_in, fan_out)
initialize(p, f, rv) ==
  [p EXCEPT !.data = init_fill(f, p.size, rv), !.initialized = TRUE]

\* Parameter::set_initialized
set_initialized(p) == [p EXCEPT !.initialized = TRUE]

\* Parameter::set_trainable(bool)
parameter_set_trainable(p, trainable) == [p EXCEPT !.trainable = trainable]

\* layer::init_parameters: every Parameter of the layer is filled by the
\* initializer of its type and marked initialized
init_parameters(st, l, rv) ==
  LET L == st.layers[l]
      ps == [i \in 1..Len(L.parameters_) |->
               LET p == L.parameters_[i]
                   q == IF p.type = "weight"
                          THEN initialize(p, L.weight_init_, rv)
                          ELSE IF p.type = "bias"
                            THEN initialize(p, L.bias_init_, rv)
                            ELSE p
               IN  set_initialized(q)]
  IN  [st EXCEPT !.layers[l].parameters_ = ps]

RECURSIVE alloc_outputs(_, _, _)
\* the loop of setup over i = 0 .. out_channels_-1: an output edge is made
\* for every slot that has none
alloc_outputs(st, l, i) ==
  LET L == st.layers[l] IN
  IF i > out_channels_(L) THEN st
  ELSE IF L.next_[i] # Null THEN alloc_outputs(st, l, i + 1)
  ELSE LET e   == NewEdge(l, out_shape(L)[i], L.out_type_[i])
           es  == Append(st.edges, e)
           st1 == [st EXCEPT !.edges = es, !.layers[l].next_[i] = Len(es)]
       IN  alloc_outputs(st1, l, i + 1)

\* the tail of setup: Parameters are (re)initialized when one of them is
\* not initialized yet, or when reset_weight is set
setup_parameters(st, l, reset_weight, rv) ==
  LET L == st.layers[l] IN
  IF \E i \in 1..Len(L.parameters_) : ~L.parameters_[i].initialized
    THEN init_parameters(st, l, rv)
    ELSE IF reset_weight THEN init_parameters(st, l, rv) ELSE st

\* a setup that validates the shape counts only after it has allocated the
\* output edges and initialized the Parameters
setup_check_last(st, l, reset_weight, rv) ==
  LET L   == st.layers[l]
      n   == IF Len(out_shape(L)) < out_channels_(L)
               THEN Len(out_shape(L)) ELSE out_channels_(L)
      Lc  == [L EXCEPT !.out_type_ = SubSeq(L.out_type_, 1, n)]
      st0 == alloc_outputs([st EXCEPT !.layers[l] = Lc], l, 1)
      st1 == [st0 EXCEPT !.layers[l].out_type_ = L.out_type_]
      st2 == setup_parameters(st1, l, reset_weight, rv)
  IN  IF Len(in_shape(L)) # in_channels_(L)
         \/ Len(out_shape(L)) # out_channels_(L)
        THEN Throw(st2, "Connection mismatch at setup layer")
        ELSE st2

\* layer::setup(reset_weight)
setup(st, l, reset_weight, rv) ==
  LET L == st.layers[l] IN
  IF Len(in_shape(L)) # in_channels_(L)
     \/ Len(out_shape(L)) # out_channels_(L)
    THEN Throw(st, "Connection mismatch at setup layer")
    ELSE setup_parameters(alloc_outputs(st, l, 1), l, reset_weight, rv)

\* layer::set_in_shape: the base class refuses; activation_layer and the
\* other layers of the repository do not override it
set_in_shape(st, l, shape) ==
  Throw(st, "Can't set shape. Shape inferring not applicable for this layer (yet).")

\* connection_mismatch(from, to): builds the message and throws
connection_mismatch(st, from, to) == Throw(st, "layer dimension mismatch!")

\* a connect that links the edge first and compares the sizes afterwards
connect_link_first(st, head, tail, head_index, tail_index, rv) ==
  LET oshape == out_shape(st.layers[head])[head_index]
      ishape == in_shape(st.layers[tail])[tail_index]
      st1    == setup(st, head, FALSE, rv)
      e      == st1.layers[head].next_[head_index]
      st2    == [st1 EXCEPT !.layers[tail].prev_[tail_index] = e,
                            !.edges[e] = add_next_node(@, tail)]
  IN  IF st1.err # "none" THEN st1
      ELSE IF shape_size(oshape) # shape_size(ishape)
        THEN connection_mismatch(st2, head, tail)
        ELSE st2

\* connect(head, tail, head_index, tail_index)
connect(st, head, tail, head_index, tail_index, rv) ==
  LET oshape == out_shape(st.layers[head])[head_index]
      ishape == in_shape(st.layers[tail])[tail_index]
      st1    == setup(st, head, FALSE, rv)
      infer  == shape_size(ishape) = 0
      st2    == IF infer THEN set_in_shape(st1, tail, oshape) ELSE st1
      ishape2 == IF infer THEN oshape ELSE ishape
      e      == st2.layers[head].next_[head_index]
  IN  IF st1.err # "none" THEN st1
      ELSE IF st2.err # "none" THEN st2
      ELSE IF shape_size(oshape) # shape_size(ishape2)
        THEN connection_mismatch(st2, head, tail)
      ELSE IF e = Null
        THEN Throw(st2, "output edge must not be null")
      ELSE [st2 EXCEPT !.layers[tail].prev_[tail_index] = e,
                       !.edges[e] = add_next_node(@, tail)]

-----------------------------------------------------------------------------
(* The forward protocol of a layer (layer.h) *)

\* layer::add_parameter: a new Parameter, not initialized, is appended
add_parameter(st, l, size, type, trainable, gv) ==
  [st EXCEPT !.layers[l].parameters_ =
     Append(@, NewParameter(type, size, trainable, gv))]

\* layer::alloc_input: the new edge has no producer
alloc_input(st, l, i) ==
  LET L  == st.layers[l]
      es == Append(st.edges, NewEdge(Null, in_shape(L)[i], L.in_type_[i]))
  IN  [st EXCEPT !.edges = es, !.layers[l].prev_[i] = Len(es)]

\* layer::alloc_output: the new edge has this layer as its producer
alloc_output(st, l, i) ==
  LET L  == st.layers[l]
      es == Append(st.edges, NewEdge(l, out_shape(L)[i], L.out_type_[i]))
  IN  [st EXCEPT !.edges = es, !.layers[l].next_[i] = Len(es)]

\* layer::ith_in_node: the edge is made when the slot is empty
ith_in_node(st, l, i) ==
  IF st.layers[l].prev_[i] = Null THEN alloc_input(st, l, i) ELSE st

\* layer::ith_out_node
ith_out_node(st, l, i) ==
  IF st.layers[l].next_[i] = Null THEN alloc_output(st, l, i) ELSE st

RECURSIVE set_in_data_loop(_, _, _, _, _, _)
\* the loop of set_in_data over the input channels i; n counts the
\* data-typed channels met so far.  The data tensor of the edge is resized
\* to exactly the number of samples handed in, then every sample is copied.
set_in_data_loop(st, l, data, i, n, fv) ==
  LET L == st.layers[l] IN
  IF i > in_channels_(L) THEN st
  ELSE IF L.in_type_[i] # "data"
    THEN set_in_data_loop(st, l, data, i + 1, n, fv)
  ELSE LET st1      == ith_in_node(st, l, i)
           e        == st1.layers[l].prev_[i]
           in_size  == shape_size(st1.edges[e].shape_)
           src_data == data[n]
           sz       == Len(src_data)
           d1       == resize_axis(st1.edges[e].data_, sz, in_size, fv)
           d2       == [j \in 1..Len(d1) |->
                          IF j <= sz THEN src_data[j] ELSE d1[j]]
           st2      == [st1 EXCEPT !.edges[e].data_ = d2]
       IN  set_in_data_loop(st2, l, data, i + 1, n + 1, fv)

\* layer::set_in_data(data, cnt)
set_in_data(st, l, data, fv) == set_in_data_loop(st, l, data, 1, 1, fv)

\* the lambda of set_sample_count applied unconditionally
resize_always(t, sample_count, cols, fv) ==
  resize_axis(t, sample_count, cols, fv)

\* the lambda `resize` of set_sample_count: "increase the size if necessary
\* - but do not decrease" (an edge tensor always has dim() = 2)
resize(t, sample_count, cols, fv) ==
  IF Len(t) <= sample_count THEN resize_axis(t, sample_count, cols, fv) ELSE t

\* resize applied to the data and the gradient tensor of edge e
resize_edge(st, e, sample_count, fv) ==
  LET cols == shape_size(st.edges[e].shape_) IN
  [st EXCEPT !.edges[e].data_ = resize(@, sample_count, cols, fv),
             !.edges[e].grad_ = resize(@, sample_count, cols, fv)]

RECURSIVE resize_inputs(_, _, _, _, _)
resize_inputs(st, l, sample_count, i, fv) ==
  IF i > in_channels_(st.layers[l]) THEN st
  ELSE LET st1 == ith_in_node(st, l, i)
       IN  resize_inputs(resize_edge(st1, st1.layers[l].prev_[i],
                                     sample_count, fv),
                         l, sample_count, i + 1, fv)

RECURSIVE resize_outputs(_, _, _, _, _)
resize_outputs(st, l, sample_count, i, fv) ==
  IF i > out_channels_(st.layers[l]) THEN st
  ELSE LET st1 == ith_out_node(st, l, i)
       IN  resize_outputs(resize_edge(st1, st1.layers[l].next_[i],
                                      sample_count, fv),
                          l, sample_count, i + 1, fv)

\* the last loop of set_sample_count: every Parameter's gradient gets
\* exactly sample_count rows
resize_grads(st, l, sample_count, fv) ==
  [st EXCEPT !.layers[l].parameters_ =
     [i \in 1..Len(@) |-> resize_grad(@[i], sample_count, fv)]]

\* a set_sample_count that leaves the output edges as they are
set_sample_count_inputs_only(st, l, sample_count, fv) ==
  resize_grads(resize_inputs(st, l, sample_count, 1, fv),
               l, sample_count, fv)

\* layer::set_sample_count(sample_count)
set_sample_count(st, l, sample_count, fv) ==
  resize_grads(
    resize_outputs(resize_inputs(st, l, sample_count, 1, fv),
                   l, sample_count, 1, fv),
    l, sample_count, fv)

RECURSIVE gather_inputs(_, _, _)
\* the first loop of forward(): fwd_in_data_[i] = ith_in_node(i)->get_data()
gather_inputs(st, l, i) ==
  IF i > in_channels_(st.layers[l]) THEN st
  ELSE gather_inputs(ith_in_node(st, l, i), l, i + 1)

RECURSIVE gather_outputs(_, _, _)
\* the second loop of forward(): the output edges are fetched and their
\* gradients cleared
gather_outputs(st, l, i) ==
  IF i > out_channels_(st.layers[l]) THEN st
  ELSE LET st1 == ith_out_node(st, l, i)
           e   == st1.layers[l].next_[i]
       IN  gather_outputs([st1 EXCEPT !.edges[e] = edge_clear_grads(@)],
                          l, i + 1)

\* what the kernel computes for one sample: a value that depends on the
\* sample and on the layer's first Parameter
kernel_value(L, in_row) ==
  in_row[1] + (IF Len(L.parameters_) > 0 THEN L.parameters_[1].data[1] ELSE 0)

\* forward_propagation(in_data, out_data): the kernel of the subclass
\* writes one row per sample of the batch into every output tensor; it
\* changes neither the shape of a tensor nor a Parameter
forward_propagation(st, l) ==
  LET L       == st.layers[l]
      in_data == st.edges[L.prev_[1]].data_
      outs    == {L.next_[i] : i \in 1..out_channels_(L)}
  IN  [st EXCEPT !.edges =
         [e \in 1..Len(@) |->
            IF e \in outs
              THEN [@[e] EXCEPT !.data_ =
                      [r \in 1..Len(@) |->
                         IF r <= Len(in_data)
                           THEN Fill1(Len(@[r]), kernel_value(L, in_data[r]))
                           ELSE @[r]]]
              ELSE @[e]]]

\* layer::forward(): the sample count is the number of rows of the first
\* input's data tensor
forward(st, l, fv) ==
  LET st1 == gather_inputs(st, l, 1)
      sample_count == Len(st1.edges[st1.layers[l].prev_[1]].data_)
      st2 == set_sample_count(st1, l, sample_count, fv)
      st3 == gather_outputs(st2, l, 1)
  IN  forward_propagation(st3, l)

\* layer::forward(input, out): the state it leaves
forward_input(st, l, input, rv, fv) ==
  LET st1 == setup(st, l, FALSE, rv) IN
  IF st1.err # "none" THEN st1
  ELSE forward(set_in_data(st1, l, input, fv), l, fv)

\* the indices of the data-typed entries of a list of edge types
DataChannels(types) ==
  SelectSeq([i \in 1..Len(types) |-> i], LAMBDA i : types[i] = "data")

\* layer::output(out): the data tensors of the data-typed output edges
output(st, l) ==
  LET L  == st.layers[l]
      ch == DataChannels(L.out_type_)
  IN  [k \in 1..Len(ch) |-> st.edges[L.next_[ch[k]]].data_]

-----------------------------------------------------------------------------
(* backward, clear_grads and update_parameters (layer.h), and the          *)
(* optimizer update_parameters drives (optimizer.h)                        *)

RECURSIVE clear_in_grads(_, _, _)
\* the first loop of layer::clear_grads, over i < in_type_.size():
\* ith_in_node(i) makes the edge when the slot is empty
clear_in_grads(st, l, i) ==
  IF i > Len(st.layers[l].in_type_) THEN st
  ELSE LET st1 == ith_in_node(st, l, i)
           e   == st1.layers[l].prev_[i]
       IN  clear_in_grads([st1 EXCEPT !.edges[e] = edge_clear_grads(@)],
                          l, i + 1)

\* layer::clear_grads
clear_grads(st, l) ==
  LET st1 == clear_in_grads(st, l, 1) IN
  [st1 EXCEPT !.layers[l].parameters_ =
                [i \in 1..Len(@) |-> parameter_clear_grads(@[i])],
              !.events = Append(@, [ev |-> "clear_grads"])]

\* layer::post_update: the hook of the subclass, empty by default
post_update(st, l) == [st EXCEPT !.events = Append(@, [ev |-> "post_update"])]

\* gradient_descent::update(dW, W): the new contents of W
gradient_descent_update(opt, dW, W) ==
  [i \in 1..Len(W) |-> W[i] - opt.alpha * (dW[i] + opt.lambda * W[i])]

\* diff[j] *= rcp_batch_size for every j.  batch_size is a power of two and
\* diff[j] a multiple of it in every state of the model, so the product is
\* the exact quotient, in float_t and here.
scale_diff(diff, batch_size) == [j \in 1..Len(diff) |-> diff[j] \div batch_size]

\* the body of the loop of update_parameters for the trainable Parameter i
update_parameter(st, l, i, opt, batch_size) ==
  LET L        == st.layers[l]
      p        == L.parameters_[i]
      diff     == scale_diff(merge_grads(p, L.parameters_diff_), batch_size)
      target_t == p.data
      updated  == gradient_descent_update(opt, diff, target_t)
  IN  [st EXCEPT !.layers[l].parameters_diff_ = diff,
                 !.layers[l].parameters_[i] = set_data(p, updated),
                 !.events = Append(@, [ev |-> "update", p |-> i, dW |-> diff,
                                       W |-> target_t, Wnew |-> updated])]

RECURSIVE update_loop(_, _, _, _, _)
\* the loop of update_parameters over the Parameters, in their order
update_loop(st, l, i, opt, batch_size) ==
  IF i > Len(st.layers[l].parameters_) THEN st
  ELSE IF ~st.layers[l].parameters_[i].trainable
    THEN update_loop(st, l, i + 1, opt, batch_size)
  ELSE update_loop(update_parameter(st, l, i, opt, batch_size),
                   l, i + 1, opt, batch_size)

RECURSIVE update_loop_all(_, _, _, _, _)
\* the loop without the is_trainable test
update_loop_all(st, l, i, opt, batch_size) ==
  IF i > Len(st.layers[l].parameters_) THEN st
  ELSE update_loop_all(update_parameter(st, l, i, opt, batch_size),
                       l, i + 1, opt, batch_size)

\* an update_parameters that updates every Parameter, trainable or not
update_parameters_all(st, l, opt, batch_size) ==
  post_update(clear_grads(update_loop_all(st, l, 1, opt, batch_size), l), l)

\* an update_parameters that clears the gradients before it updates
update_parameters_clear_first(st, l, opt, batch_size) ==
  post_update(update_loop(clear_grads(st, l), l, 1, opt, batch_size), l)

\* an update_parameters that does not scale the merged gradient
update_parameters_unscaled(st, l, opt, batch_size) ==
  post_update(clear_grads(update_loop(st, l, 1, opt, 1), l), l)

\* layer::update_parameters(optimizer, batch_size)
update_parameters(st, l, opt, batch_size) ==
  post_update(clear_grads(update_loop(st, l, 1, opt, batch_size), l), l)

\* layer::set_trainable(trainable)
set_trainable(st, l, trainable) ==
  [st EXCEPT !.layers[l].parameters_ =
     [i \in 1..Len(@) |-> parameter_set_trainable(@[i], trainable)]]

\* back_propagation(in_data, out_data, out_grad, in_grad): the kernel of
\* the subclass writes a gradient for every sample (row) into every
\* Parameter's gradient tensor and into every input edge's gradient tensor;
\* g scales what it writes
back_propagation(st, l, g) ==
  LET L   == st.layers[l]
      ins == {L.prev_[i] : i \in 1..in_channels_(L)}
  IN  [st EXCEPT
         !.layers[l].parameters_ =
            [i \in 1..Len(@) |->
               [@[i] EXCEPT !.grad =
                  [r \in 1..Len(@) |-> [c \in 1..Len(@[r]) |-> g * (r + c - 1)]]]],
         !.edges =
            [e \in 1..Len(@) |->
               IF e \in ins
                 THEN [@[e] EXCEPT !.grad_ =
                         [r \in 1..Len(@) |-> [c \in 1..Len(@[r]) |-> g * r]]]
                 ELSE @[e]]]

RECURSIVE gather_out_nodes(_, _, _)
\* the second loop of backward(): ith_out_node(i) for every output channel
gather_out_nodes(st, l, i) ==
  IF i > out_channels_(st.layers[l]) THEN st
  ELSE gather_out_nodes(ith_out_node(st, l, i), l, i + 1)

\* layer::backward()
backward(st, l, g) ==
  back_propagation(gather_out_nodes(gather_inputs(st, l, 1), l, 1), l, g)

-----------------------------------------------------------------------------
(* graph_traverse (layer.h), run one iteration of its while loop at a time *)

RECURSIVE prev_nodes_from(_, _, _, _)
\* node::prev_nodes: the producers of the edges in the input slots of l,
\* in slot order, empty slots and edges without a producer left out
prev_nodes_from(ls, es, l, i) ==
  IF i > Len(ls[l].prev_) THEN <<>>
  ELSE LET e == ls[l].prev_[i]
           rest == prev_nodes_from(ls, es, l, i + 1)
       IN  IF e # Null /\ es[e].prev_ # Null THEN <<es[e].prev_>> \o rest
           ELSE rest

prev_nodes(ls, es, l) == prev_nodes_from(ls, es, l, 1)

RECURSIVE next_nodes_from(_, _, _, _)
\* node::next_nodes: the consumers of the edges in the output slots of l,
\* in slot order
next_nodes_from(ls, es, l, i) ==
  IF i > Len(ls[l].next_) THEN <<>>
  ELSE LET e == ls[l].next_[i]
           rest == next_nodes_from(ls, es, l, i + 1)
       IN  IF e # Null THEN es[e].next_ \o rest ELSE rest

next_nodes(ls, es, l) == next_nodes_from(ls, es, l, 1)

RECURSIVE push_unvisited(_, _, _)
\* the loops over prev and next: a layer that is not in visited is pushed
push_unvisited(S, nodes, visited) ==
  IF nodes = <<>> THEN S
  ELSE push_unvisited(IF Head(nodes) \in visited THEN S
                      ELSE Append(S, Head(nodes)),
                      Tail(nodes), visited)

\* the edge_callback calls of one iteration: the non-null output edges
edge_callbacks(ls, l) ==
  LET out == SelectSeq(ls[l].next_, LAMBDA e : e # Null)
  IN  [k \in 1..Len(out) |-> [ev |-> "edge", e |-> out[k]]]

\* graph_traverse up to its loop: the queue holds the root
graph_traverse_begin(root_node) ==
  [active |-> TRUE, root |-> root_node, S |-> <<root_node>>, visited |-> {}]

\* an iteration that follows the successor edges only
graph_traverse_step_next_only(ls, es, tr) ==
  LET curr    == Head(tr.S)
      visited == tr.visited \cup {curr}
  IN  [tr EXCEPT !.visited = visited,
                 !.S = push_unvisited(Tail(tr.S), next_nodes(ls, es, curr),
                                      visited)]

\* one iteration of the while loop: the locals it leaves
graph_traverse_step(ls, es, tr) ==
  LET curr    == Head(tr.S)
      visited == tr.visited \cup {curr}
      S1      == push_unvisited(Tail(tr.S), prev_nodes(ls, es, curr), visited)
      S2      == push_unvisited(S1, next_nodes(ls, es, curr), visited)
  IN  [tr EXCEPT !.visited = visited, !.S = S2]

\* the callbacks of one iteration: node_callback(*curr), then edge_callback
\* for every non-null output edge
graph_traverse_callbacks(ls, tr) ==
  <<[ev |-> "node", l |-> Head(tr.S)]>> \o edge_callbacks(ls, Head(tr.S))

-----------------------------------------------------------------------------
(* conv2d_op_custom (conv2d_op_custom.h): vec_t is a sequence, element k  *)
(* of the code is element k + 1 of the sequence                            *)

RECURSIVE accumulate(_)
\* std::accumulate(first, last, 0)
accumulate(s) == IF s = <<>> THEN 0 ELSE Head(s) + accumulate(Tail(s))

\* index3d (shape3d): width_, height_, depth_
shape3d(w, h, d) == [width_ |-> w, height_ |-> h, depth_ |-> d]

\* index3d::size
shape_len(shape) == shape.width_ * shape.height_ * shape.depth_

\* index3d::get_index
get_index(shape, x, y, channel) ==
  (shape.height_ * channel + y) * shape.width_ + x

\* connection_table::is_connected
is_connected(tbl, o, inc) == tbl[o + 1][inc + 1]

\* channel c of a vector laid out by shape, as the set of its positions
ChannelIndices(shape, c) ==
  {get_index(shape, 0, 0, c) + k + 1 : k \in 0..(shape.width_ * shape.height_ - 1)}

\* the weights of the pair (o, inc), as the set of their positions
WeightIndices(params, o, inc) ==
  ChannelIndices(params.weight, params.in.depth_ * o + inc)

\* the sum the forward loops over wy, wx form for output (x, y) of channel
\* o from input channel inc
window_sum(in, W, params, o, inc, x, y) ==
  LET pw == get_index(params.weight, 0, 0, params.in.depth_ * o + inc)
      ppi == get_index(params.in_padded, 0, 0, inc)
               + params.in_padded.width_ * (y * params.h_stride)
               + x * params.w_stride
  IN  accumulate([wy \in 1..params.weight.height_ |->
        accumulate([wx \in 1..params.weight.width_ |->
          W[pw + (wy - 1) * params.weight.width_ + (wx - 1) + 1]
            * in[ppi + (wy - 1) * params.in_padded.width_ + (wx - 1) + 1]])])

\* the body of the forward loop for one sample: row sample of out_data
forward_sample(in, W, bias, a, params) ==
  [j \in 1..Len(a) |->
     LET area == params.out.width_ * params.out.height_
         o == (j - 1) \div area
         y == ((j - 1) % area) \div params.out.width_
         x == (j - 1) % params.out.width_
     IN  a[j]
         + accumulate([i \in 1..params.in.depth_ |->
             IF is_connected(params.tbl, o, i - 1)
             THEN window_sum(in, W, params, o, i - 1, x, y) ELSE 0])
         + (IF params.has_bias THEN bias[o + 1] ELSE 0)]

\* forward that takes every pair of channels as connected
conv2d_op_custom_forward_dense(in_data, W, bias, out_data, params) ==
  [sample \in 1..Len(in_data) |->
     forward_sample(in_data[sample], W, bias, out_data[sample],
                    [params EXCEPT !.tbl = [o \in DOMAIN params.tbl |->
                       [i \in DOMAIN params.tbl[o] |-> TRUE]]])]

\* conv2d_op_custom, forward: out_data after the call
conv2d_op_custom_forward(in_data, W, bias, out_data, params) ==
  [sample \in 1..Len(in_data) |->
     forward_sample(in_data[sample], W, bias, out_data[sample], params)]

\* backward, "propagate delta to previous layer": row sample of prev_delta
backward_prev_delta(W, curr_delta_s, prev_delta_s, params) ==
  [k \in 1..Len(prev_delta_s) |->
     prev_delta_s[k]
     + accumulate([i \in 1..params.in.depth_ |->
        accumulate([oc \in 1..params.out.depth_ |->
         IF ~is_connected(params.tbl, oc - 1, i - 1) THEN 0
         ELSE
          LET pw == get_index(params.weight, 0, 0,
                              params.in.depth_ * (oc - 1) + (i - 1))
              src == get_index(params.out, 0, 0, oc - 1)
              dstb == get_index(params.in_padded, 0, 0, i - 1)
          IN accumulate([y \in 1..params.out.height_ |->
              accumulate([x \in 1..params.out.width_ |->
               accumulate([wy \in 1..params.weight.height_ |->
                accumulate([wx \in 1..params.weight.width_ |->
                  IF dstb + (y - 1) * params.h_stride * params.in_padded.width_
                       + (x - 1) * params.w_stride
                       + (wy - 1) * params.in_padded.width_ + (wx - 1) + 1 = k
                  THEN W[pw + (wy - 1) * params.weight.width_ + (wx - 1) + 1]
                         * curr_delta_s[src + (y - 1) * params.out.width_
                                        + (x - 1) + 1]
                  ELSE 0])])])])])])]

\* backward, "accumulate dw": row sample of dW
backward_dW(prev_out_s, curr_delta_s, dW_s, params) ==
  [k \in 1..Len(dW_s) |->
     dW_s[k]
     + accumulate([i \in 1..params.in.depth_ |->
        accumulate([oc \in 1..params.out.depth_ |->
         IF ~is_connected(params.tbl, oc - 1, i - 1) THEN 0
         ELSE
          accumulate([wy \in 1..params.weight.height_ |->
           accumulate([wx \in 1..params.weight.width_ |->
            IF get_index(params.weight, wx - 1, wy - 1,
                         params.in.depth_ * (oc - 1) + (i - 1)) + 1 # k
            THEN 0
            ELSE
             LET prevo == get_index(params.in_padded, wx - 1, wy - 1, i - 1)
                 delta == get_index(params.out, 0, 0, oc - 1)
             IN  accumulate([y \in 1..params.out.height_ |->
                  accumulate([x \in 1..params.out.width_ |->
                   prev_out_s[prevo
                              + (y - 1) * params.in_padded.width_ * params.h_stride
                              + (x - 1) * params.w_stride + 1]
                     * curr_delta_s[delta + (y - 1) * params.out.width_
                                    + (x - 1) + 1]])])])])])])]

\* backward, "accumulate db": row sample of db
backward_db(curr_delta_s, db_s, params) ==
  IF ~params.has_bias THEN db_s
  ELSE [oc \in 1..Len(db_s) |->
          db_s[oc]
          + accumulate([k \in 1..(params.out.width_ * params.out.height_) |->
              curr_delta_s[get_index(params.out, 0, 0, oc - 1) + k]])]

\* conv2d_op_custom, backward: the buffers it writes after the call
conv2d_op_custom_backward(prev_out, W, dW, db, curr_delta, prev_delta, params) ==
  [prev_delta |-> [s \in 1..Len(prev_out) |->
                     backward_prev_delta(W, curr_delta[s], prev_delta[s], params)],
   dW |-> [s \in 1..Len(prev_out) |->
             backward_dW(prev_out[s], curr_delta[s], dW[s], params)],
   db |-> [s \in 1..Len(prev_out) |->
             backward_db(curr_delta[s], db[s], params)]]

\* no kernel call is under way
NoCtx == [op |-> "none"]

-----------------------------------------------------------------------------
(* The OpKernels (fully_connected_op.h, conv2d_grad_op.h,                  *)
(* fully_connected_grad_op.h): compute() on an OpKernelContext             *)

\* Tensor(const tensor_t &): a deep copy of shape {data.size(), data[0].size()}
from_tensor_t(data) ==
  [i \in 1..Len(data) |-> [j \in 1..Len(data[1]) |-> data[i][j]]]

\* Tensor::toTensor
toTensor(t) ==
  [i \in 1..Len(t) |-> [j \in 1..(IF Len(t) = 0 THEN 0 ELSE Len(t[1])) |-> t[i][j]]]

\* fully_connected_op_internal, forward: out_data after the call
fully_connected_op_internal_forward(in_data, W, bias, out_data, has_bias) ==
  [s \in 1..Len(out_data) |-> [o \in 1..Len(out_data[s]) |->
     accumulate([i \in 1..Len(in_data[s]) |->
                   W[1][(i - 1) * Len(out_data[s]) + o] * in_data[s][i]])
     + (IF has_bias THEN bias[1][o] ELSE 0)]]

\* fully_connected_op_internal, backward: the buffers it writes
fully_connected_op_internal_backward(prev_out, W, dW, db, curr_delta, prev_delta, has_bias) ==
  LET outs == Len(curr_delta[1])
  IN  [prev_delta |->
         [s \in 1..Len(prev_delta) |-> [i \in 1..Len(prev_delta[s]) |->
            prev_delta[s][i]
            + accumulate([o \in 1..outs |->
                            curr_delta[s][o] * W[1][(i - 1) * outs + o]])]],
       dW |-> [s \in 1..Len(dW) |-> [k \in 1..Len(dW[s]) |->
                 dW[s][k] + curr_delta[s][((k - 1) % outs) + 1]
                              * prev_out[s][((k - 1) \div outs) + 1]]],
       db |-> IF has_bias
              THEN [s \in 1..Len(db) |-> [o \in 1..Len(db[s]) |->
                      db[s][o] + curr_delta[s][o]]]
              ELSE db]

\* the context a compute() call leaves and what it throws
Computed(c, what) == [ctx |-> c, err |-> what]

\* fully_connected_op_nnpack in a build without NNPACK
fully_connected_op_nnpack(c) ==
  Computed(c, "TinyDNN has not been compiled with NNPACK support.")

\* FullyConnectedOp::compute
FullyConnectedOp_compute(c) ==
  LET filled == [c EXCEPT !.output = fill(c.output, 0)]
      in_data_t == from_tensor_t(c.input)
      weights_t == from_tensor_t(c.W)
      out_data_t == from_tensor_t(filled.output)
  IN  IF c.engine \in {"internal", "avx"}
      THEN Computed([filled EXCEPT !.output =
                       toTensor(fully_connected_op_internal_forward(
                                  in_data_t, weights_t, c.bias, out_data_t,
                                  c.has_bias))], "")
      ELSE IF c.engine = "nnpack" THEN fully_connected_op_nnpack(filled)
      ELSE Computed(filled, "Not supported engine")

\* FullyConnectedGradOp::compute
FullyConnectedGradOp_compute(c) ==
  LET prev_out == c.input
      prev_delta == fill(c.input_grad, 0)
      curr_delta == c.output_grad
      weights_grads == c.dW
      bias_grads == IF c.has_bias THEN c.db ELSE <<>>
      r == fully_connected_op_internal_backward(
             prev_out, c.W, weights_grads, bias_grads, curr_delta,
             prev_delta, c.has_bias)
  IN  IF c.engine \in {"internal", "avx"}
      THEN Computed([c EXCEPT !.dW = r.dW, !.db = r.db,
                              !.input_grad = toTensor(r.prev_delta)], "")
      ELSE Computed(c, "Not supported engine")

\* Conv2dGradOp::compute
Conv2dGradOp_compute(c) ==
  LET prev_out_t == c.input
      weights_grads_t == c.dW
      bias_grads_t == IF c.has_bias THEN c.db ELSE <<>>
      prev_delta_t == fill(c.input_grad, 0)
      curr_delta_t == c.output_grad
      r == conv2d_op_custom_backward(
             prev_out_t, c.W[1], weights_grads_t,
             IF c.has_bias THEN bias_grads_t ELSE c.db,
             curr_delta_t, prev_delta_t, c.params)
  IN  IF c.engine \in {"internal", "avx"}
      THEN Computed([c EXCEPT !.input_grad = toTensor(r.prev_delta),
                              !.dW = r.dW,
                              !.db = IF c.has_bias THEN r.db ELSE c.db], "")
      ELSE Computed(c, "Not supported engine")

\* OpKernel::compute of the kernel of a context
compute(c) ==
  IF c.kind = "FullyConnectedOp" THEN FullyConnectedOp_compute(c)
  ELSE IF c.kind = "FullyConnectedGradOp" THEN FullyConnectedGradOp_compute(c)
  ELSE Conv2dGradOp_compute(c)

-----------------------------------------------------------------------------
(* nnp_backend (backend_nnp.h)                                             *)

\* a pointer member no constructor has set; a pointer that is set is the
\* one-element sequence of what it points to
Uninit == <<>>

\* what a call on the backend leaves: the buffers and what it throws
NnpResult(b, what) == [ctx |-> b, err |-> what]

\* nnp_backend constructors: for a convolution, for a deconvolution, default
nnp_backend(built, params) ==
  [params_c_ |-> IF built = "conv" THEN <<params>> ELSE Uninit,
   params_d_ |-> IF built = "deconv" THEN <<params>> ELSE Uninit]

\* the forward body after the two checks: a build with NNPACK zero-fills
\* the output and runs the kernel, which leaves kv in every element; a
\* build without it throws
nnp_forward_body(b, use_nnpack, kv) ==
  IF use_nnpack
  THEN NnpResult([b EXCEPT !.out_data[2] =
                    [k \in 1..Len(b.out_data[2]) |-> kv]], "")
  ELSE NnpResult(b, "Tiny-cnn has not been compiled with NNPACK support.")

\* conv2d with the stride test before the bias test
nnp_conv2d_stride_first(b, p, use_nnpack, kv) ==
  IF p.w_stride # 1 \/ p.h_stride # 1
  THEN NnpResult(b, "NNPACK Convolution requires stride 1.")
  ELSE IF ~p.has_bias
  THEN NnpResult(b, "NNPACK Convolution requires a bias term.")
  ELSE nnp_forward_body(b, use_nnpack, kv)

\* nnp_backend::conv2d, forward; p is what params_c_ points to
nnp_conv2d(b, p, use_nnpack, kv) ==
  IF ~p.has_bias
  THEN NnpResult(b, "NNPACK Convolution requires a bias term.")
  ELSE IF p.w_stride # 1 \/ p.h_stride # 1
  THEN NnpResult(b, "NNPACK Convolution requires stride 1.")
  ELSE nnp_forward_body(b, use_nnpack, kv)

\* nnp_backend::conv2d, backward
nnp_conv2d_back(b) ==
  NnpResult(b, "NNPACK does not support back propagation.")

\* nnp_backend::deconv2d, forward; p is what params_d_ points to
nnp_deconv2d(b, p, use_nnpack, kv) ==
  IF ~p.has_bias
  THEN NnpResult(b, "NNPACK Convolution requires a bias term.")
  ELSE IF p.w_stride # 1 \/ p.h_stride # 1
  THEN NnpResult(b, "NNPACK Convolution requires stride 1.")
  ELSE nnp_forward_body(b, use_nnpack, kv)

\* nnp_backend::deconv2d, backward
nnp_deconv2d_back(b) ==
  NnpResult(b, "NNPACK does not support back propagation.")

\* nnp_backend::matmul, maxpool (forward and backward), fully (forward and
\* backward)
nnp_not_implemented(b) == NnpResult(b, "not implemented yet.")

-----------------------------------------------------------------------------
(* deconvolutional_layer (deconvolutional_layer.h): output shapes and the  *)
(* cropping of the forward result                                          *)

\* deconv_out_length: ceil((float_t)in_length * stride + window_size - 1),
\* a whole number
deconv_out_length(in_length, window_size, stride) ==
  in_length * stride + window_size - 1

\* deconv_out_unpadded_length
deconv_out_unpadded_length(in_length, window_size, stride, pad_type) ==
  IF pad_type = "same" THEN in_length * stride
  ELSE in_length * stride + window_size - 1

\* deconv_set_params: params_ after the call
deconv_set_params(in, w_width, w_height, outc, ptype, has_bias, w_stride, h_stride) ==
  [in |-> in,
   out |-> shape3d(deconv_out_length(in.width_, w_width, w_stride),
                   deconv_out_length(in.height_, w_height, h_stride), outc),
   out_unpadded |->
     shape3d(deconv_out_unpadded_length(in.width_, w_width, w_stride, ptype),
             deconv_out_unpadded_length(in.height_, w_height, h_stride, ptype),
             outc),
   weight |-> shape3d(w_width, w_height, in.depth_ * outc),
   has_bias |-> has_bias, pad_type |-> ptype,
   w_stride |-> w_stride, h_stride |-> h_stride]

\* deconvolutional_layer::out_shape
deconv_out_shape(params) == <<params.out_unpadded>>

\* element k of a vector; a read past its end yields gv
read_at(v, k, gv) == IF k \in 0..(Len(v) - 1) THEN v[k + 1] ELSE gv

\* the rows the loops of copy_and_unpad_output copy into the buffer of one
\* sample, starting from the pointers pimg and pout (0-based positions)
unpad_sample(src, params, w_half, h_half, gv) ==
  [k \in 1..shape_len(params.out_unpadded) |->
     LET area == params.out_unpadded.width_ * params.out_unpadded.height_
         c    == (k - 1) \div area
         row  == ((k - 1) % area) \div params.out_unpadded.width_
         col  == (k - 1) % params.out_unpadded.width_
         pout == get_index(params.out, w_half, h_half, c)
                   + row * params.out.width_
     IN  read_at(src, pout + col, gv)]

\* the cropping that starts at the first element of each channel
copy_and_unpad_output_no_offset(out, params, gv) ==
  IF params.pad_type = "valid" THEN out
  ELSE [sample \in 1..Len(out) |->
          unpad_sample(out[sample], params, 0, 0, gv)]

\* copy_and_unpad_output: *dws_.curr_out_unpadded_ after the call
copy_and_unpad_output(out, params, gv) ==
  IF params.pad_type = "valid" THEN out
  ELSE [sample \in 1..Len(out) |->
          unpad_sample(out[sample], params, params.weight.width_ \div 2,
                       params.weight.height_ \div 2, gv)]

-----------------------------------------------------------------------------
(* max_pooling_layer (max_pooling_layer.h): the tables in2out_, out2in_    *)

\* conv_out_length
conv_out_length(in_length, window_size, stride, pad_type) ==
  LET output_length == IF pad_type = "same" THEN in_length
                       ELSE in_length - window_size + 1
  IN  (output_length + stride - 1) \div stride

\* set_maxpool_params with the shapes the constructor computes
set_maxpool_params(in_width, in_height, in_channels, pooling_size_x, pooling_size_y, stride_x, stride_y, pad_type) ==
  [in |-> shape3d(in_width, in_height, in_channels),
   out |-> shape3d(conv_out_length(in_width, pooling_size_x, stride_x, pad_type),
                   conv_out_length(in_height, pooling_size_y, stride_y, pad_type),
                   in_channels),
   pool_size_x |-> pooling_size_x, pool_size_y |-> pooling_size_y,
   stride_x |-> stride_x, stride_y |-> stride_y, pad_type |-> pad_type]

\* the index pairs <<a, b>> a loop over a in 0..n1-1 with an inner loop
\* over b in 0..n2-1 goes through, in order
LoopPairs(n1, n2) ==
  [k \in 1..(n1 * n2) |-> <<(k - 1) \div n2, (k - 1) % n2>>]

Min(a, b) == IF a < b THEN a ELSE b

RECURSIVE connect_kernel_loop(_, _, _, _, _, _)
\* the body of the loops of connect_kernel for the pairs <<dy, dx>> left
connect_kernel_loop(tb, params, outx, outy, c, todo) ==
  IF todo = <<>> \/ tb.err # "" THEN tb
  ELSE
    LET dy == todo[1][1]
        dx == todo[1][2]
        in_index  == get_index(params.in, outx * params.stride_x + dx,
                               outy * params.stride_y + dy, c)
        out_index == get_index(params.out, outx, outy, c)
    IN  IF in_index >= Len(tb.in2out_) \/ out_index >= Len(tb.out2in_)
        THEN [tb EXCEPT !.err = "index overflow"]
        ELSE connect_kernel_loop(
               [tb EXCEPT !.in2out_[in_index + 1] = out_index,
                          !.out2in_[out_index + 1] = Append(@, in_index)],
               params, outx, outy, c, Tail(todo))

\* connect_kernel
connect_kernel(tb, params, pooling_size_x, pooling_size_y, outx, outy, c) ==
  LET dxmax == Min(pooling_size_x, params.in.width_ - outx * params.stride_x)
      dymax == Min(pooling_size_y, params.in.height_ - outy * params.stride_y)
  IN  connect_kernel_loop(tb, params, outx, outy, c, LoopPairs(dymax, dxmax))

RECURSIVE init_connection_loop(_, _, _)
\* the loops of init_connection for the triples <<c, y, x>> left
init_connection_loop(tb, params, todo) ==
  IF todo = <<>> \/ tb.err # "" THEN tb
  ELSE init_connection_loop(
         connect_kernel(tb, params, params.pool_size_x, params.pool_size_y,
                        todo[1][3], todo[1][2], todo[1][1]),
         params, Tail(todo))

\* init_connection: the two tables, resized (new entries are 0 and empty)
\* and filled
init_connection(params) ==
  init_connection_loop(
    [in2out_ |-> Fill1(shape_len(params.in), 0),
     out2in_ |-> Fill1(shape_len(params.out), <<>>),
     err |-> ""],
    params,
    [k \in 1..shape_len(params.out) |->
       LET area == params.out.width_ * params.out.height_
       IN  <<(k - 1) \div area, ((k - 1) % area) \div params.out.width_,
             (k - 1) % params.out.width_>>])

\* v.resize(n): the first n elements, new elements hold fv
vector_resize(v, n, fv) ==
  [k \in 1..n |-> IF k <= Len(v) THEN v[k] ELSE fv]

\* init_connection called on tables that hold entries already, as in the
\* move constructor: resize keeps them and connect_kernel appends
init_connection_moved(in2out_, out2in_, params) ==
  init_connection_loop(
    [in2out_ |-> vector_resize(in2out_, shape_len(params.in), 0),
     out2in_ |-> vector_resize(out2in_, shape_len(params.out), <<>>),
     err |-> ""],
    params,
    [k \in 1..shape_len(params.out) |->
       LET area == params.out.width_ * params.out.height_
       IN  <<(k - 1) \div area, ((k - 1) % area) \div params.out.width_,
             (k - 1) % params.out.width_>>])

\* max_pooling_layer::fan_in_size
fan_in_size(out2in_) == Len(out2in_[1])

-----------------------------------------------------------------------------
(* conv2d_op_custom, backward, as the tasks for_i runs: one task for each  *)
(* sample; a += on a row is a load of the row and a later store             *)

\* the row of dW every task of a kernel with one shared gradient row writes
dW_row_shared(sample) == 1

\* the row of prev_delta, dW and db the task of a sample writes:
\* prev_delta[sample], dW[sample], db[sample]
prev_delta_row(sample) == sample

dW_row(sample) == sample

db_row(sample) == sample

\* the step after pc in the task of a sample
next_pc(pc, has_bias) ==
  CASE pc = "load_prev_delta" -> "store_prev_delta"
    [] pc = "store_prev_delta" -> "load_dW"
    [] pc = "load_dW" -> "store_dW"
    [] pc = "store_dW" -> IF has_bias THEN "load_db" ELSE "done"
    [] pc = "load_db" -> "store_db"
    [] OTHER -> "done"

\* one step of the task of a sample: the buffers, the task's register and
\* the log of rows written after it
task_step(c, sample) ==
  LET pc == c.pc[sample]
      moved == [c EXCEPT !.pc[sample] = next_pc(pc, c.params.has_bias)]
  IN  CASE pc = "load_prev_delta" ->
             [moved EXCEPT !.local[sample] = c.prev_delta[prev_delta_row(sample)]]
        [] pc = "store_prev_delta" ->
             [moved EXCEPT
                !.prev_delta[prev_delta_row(sample)] =
                   backward_prev_delta(c.W, c.curr_delta[sample],
                                       c.local[sample], c.params),
                !.writes = @ \cup {<<sample, "prev_delta", prev_delta_row(sample)>>}]
        [] pc = "load_dW" ->
             [moved EXCEPT !.local[sample] = c.dW[dW_row(sample)]]
        [] pc = "store_dW" ->
             [moved EXCEPT
                !.dW[dW_row(sample)] =
                   backward_dW(c.prev_out[sample], c.curr_delta[sample],
                               c.local[sample], c.params),
                !.writes = @ \cup {<<sample, "dW", dW_row(sample)>>}]
        [] pc = "load_db" ->
             [moved EXCEPT !.local[sample] = c.db[db_row(sample)]]
        [] pc = "store_db" ->
             [moved EXCEPT
                !.db[db_row(sample)] =
                   backward_db(c.curr_delta[sample], c.local[sample], c.params),
                !.writes = @ \cup {<<sample, "db", db_row(sample)>>}]
        [] OTHER -> c

\* for_i(parallelize, n, f): with parallelize every task that is not done
\* may take the next step; without it the tasks run one after the other
may_step(c, sample) ==
  /\ c.pc[sample] # "done"
  /\ ~c.parallelize => \A t \in 1..(sample - 1) : c.pc[t] = "done"

-----------------------------------------------------------------------------
(* The stateful optimizers (optimizer.h). A float the code computes is     *)
(* kept as what it is computed from: a decay power b^k as its exponent k,  *)
(* an element of the per-weight state as the gradients folded into it      *)
(* since it was zero, a weight as the list of the updates applied to it.   *)

\* the number of per-weight state vectors of a kind of optimizer
StateCount(kind) == IF kind = "adam" THEN 2 ELSE 1

\* the constructors: empty maps; adam: b1_t(0.9), b2_t(0.999), the first
\* powers of b1(0.9) and b2(0.999)
NewOptimizer(kind) ==
  [kind |-> kind,
   E_ |-> [n \in 1..StateCount(kind) |-> <<>>],
   b1_t |-> IF kind = "adam" THEN 1 ELSE 0,
   b2_t |-> IF kind = "adam" THEN 1 ELSE 0]

\* stateful_optimizer::reset: every map is cleared
optimizer_reset(o) == [o EXCEPT !.E_ = [n \in DOMAIN o.E_ |-> <<>>]]

\* stateful_optimizer::get<Index>(key): the map after the call; an entry
\* that is missing or empty becomes key.size() zeros. The maps are keyed
\* by the address of the weight vector: key 1 or 2, a sequence with <<>>
\* for a key without entry
get(map, key, size) ==
  LET grown == [k \in 1..(IF key > Len(map) THEN key ELSE Len(map)) |->
                  IF k <= Len(map) THEN map[k] ELSE <<>>]
  IN  IF grown[key] = <<>>
      THEN [grown EXCEPT ![key] = [i \in 1..size |-> <<>>]]
      ELSE grown

\* the loop body over i: every state vector of the key folds dW[i] in
\* (momentum: dWprev; adagrad, RMSprop: g; adam: mt and vt)
fold(map, key, dW) ==
  [map EXCEPT ![key] = [i \in 1..Len(map[key]) |-> Append(map[key][i], dW[i])]]

\* update(dW, W) of the four optimizers: the optimizer and W after it
optimizer_update(o, dW, W, key) ==
  LET E1 == [n \in DOMAIN o.E_ |-> fold(get(o.E_[n], key, Len(W)), key, dW)]
      b1 == IF o.kind = "adam" THEN o.b1_t + 1 ELSE o.b1_t   \* b1_t *= b1
      b2 == IF o.kind = "adam" THEN o.b2_t + 1 ELSE o.b2_t   \* b2_t *= b2
  IN  [o |-> [o EXCEPT !.E_ = E1, !.b1_t = b1, !.b2_t = b2],
       W |-> [i \in 1..Len(W) |->
                Append(W[i], [dW |-> dW[i],
                              E |-> [n \in DOMAIN E1 |-> E1[n][key][i]],
                              b1_t |-> b1, b2_t |-> b2])]]

-----------------------------------------------------------------------------
(* ProgramManager and Device::registerOp, as test_core.h uses them         *)

\* ProgramManager::reset: no compiled program is left
program_reset(programs) == <<>>

\* ProgramManager::num_programs
num_programs(programs) == Len(programs)

\* a registerOp that compiles without looking the program up first
registerOp_compile_always(programs, device, l) ==
  IF ~device.opencl
  THEN [programs |-> programs, err |-> "Device has disabled OpenCL support"]
  ELSE IF l.engine # "opencl"
  THEN [programs |-> programs, err |-> "OpenCL engine should be used"]
  ELSE [programs |-> Append(programs, <<device.id, l.id>>), err |-> ""]

\* Device::registerOp(l): a device without OpenCL support and a layer whose
\* engine is not opencl are refused; a program that is registered already
\* is not compiled again
registerOp(programs, device, l) ==
  IF ~device.opencl
  THEN [programs |-> programs, err |-> "Device has disabled OpenCL support"]
  ELSE IF l.engine # "opencl"
  THEN [programs |-> programs, err |-> "OpenCL engine should be used"]
  ELSE IF \E k \in 1..Len(programs) : programs[k] = <<device.id, l.id>>
  THEN [programs |-> programs, err |-> ""]
  ELSE [programs |-> Append(programs, <<device.id, l.id>>), err |-> ""]

-----------------------------------------------------------------------------
(* Tensor element access (tensor.h): a tensor's shape is the sequence of   *)
(* its dimensions, its storage is row-major, and an element is named by    *)
(* its offset in the storage.                                              *)

RECURSIVE dims_product(_, _)
\* the product of shape[from..Len(shape)], the loop of host_offset
dims_product(shape, from) ==
  IF from > Len(shape) THEN 1 ELSE shape[from] * dims_product(shape, from + 1)

\* Tensor::size
tensor_size(shape) == dims_product(shape, 1)

RECURSIVE host_offset(_, _)
\* Tensor::host_offset(d, args...): idx holds the indices of the last
\* Len(idx) dimensions; the range check of d is commented out
host_offset(shape, idx) ==
  IF Len(idx) = 1 THEN idx[1]
  ELSE LET dim   == Len(shape) - (Len(idx) - 1)
           shift == dims_product(shape, dim + 1)
       IN  idx[1] * shift + host_offset(shape, Tail(idx))

RECURSIVE host_offset_checked(_, _)
\* host_offset with the range check that the source has in a comment
host_offset_checked(shape, idx) ==
  IF Len(idx) = 1 THEN idx[1]
  ELSE LET dim   == Len(shape) - (Len(idx) - 1)
           shift == dims_product(shape, dim + 1)
           rest  == host_offset_checked(shape, Tail(idx))
       IN  IF idx[1] >= shape[dim] \/ rest = -1 THEN -1
           ELSE idx[1] * shift + rest

\* Tensor::host_iter: std::next(storage_.begin(), host_offset(args...)),
\* the iterator is the position it points at
host_iter(shape, idx) == host_offset(shape, idx)

\* Tensor::host_at: storage_(args...), the unchecked element access of the
\* storage: the set of elements the call can yield. Inside the storage it
\* is the element at the strided offset; outside it the read is undefined,
\* any element or a fault (-1)
host_at(shape, idx) ==
  LET off == host_offset(shape, idx)
  IN  IF off < tensor_size(shape) THEN {off}
      ELSE (0..(tensor_size(shape) - 1)) \cup {-1}

-----------------------------------------------------------------------------
(* tiny_deconv2d_back_kernel (avx_deconv2d_back_kernel.h). A sum is kept   *)
(* as the set of its terms: the element written (dst, 0-based), and the    *)
(* elements of W or prev_out (w) and of curr_delta (src) multiplied.       *)

\* the loop nest "propagate delta to previous layer"
deconv_back_prev_delta(params, tbl) ==
  {[dst |-> get_index(params.in, 0, 0, inc) + y * params.in.width_ + x,
    w   |-> get_index(params.weight, 0, 0, params.in.depth_ * outc + inc)
              + wy * params.weight.width_ + wx,
    src |-> get_index(params.out_unpadded, 0, 0, outc)
              + (y + wy) * params.h_stride * params.in.width_
              + (x + wx) * params.w_stride,
    outc |-> outc, inc |-> inc, x |-> x, y |-> y, wx |-> wx, wy |-> wy] :
   <<inc, outc, y, x, wy, wx>> \in
     {t \in (0..(params.in.depth_ - 1)) \X (0..(params.out.depth_ - 1))
            \X (0..(params.in.height_ - 1)) \X (0..(params.in.width_ - 1))
            \X (0..(params.weight.height_ - 1))
            \X (0..(params.weight.width_ - 1)) :
        is_connected(tbl, t[2], t[1])}}

\* the loop nest "accumulate dw"; i is the position inside vectorize::dot
deconv_back_dW(params, tbl) ==
  {[dst |-> get_index(params.weight, wx, wy, params.in.depth_ * outc + inc),
    w   |-> get_index(params.in, 0, 0, inc) + y * params.in.width_ + i,
    src |-> get_index(params.out, wx, wy, outc) + y * params.out.width_ + i] :
   <<inc, outc, wy, wx, y, i>> \in
     {t \in (0..(params.in.depth_ - 1)) \X (0..(params.out.depth_ - 1))
            \X (0..(params.weight.height_ - 1))
            \X (0..(params.weight.width_ - 1))
            \X (0..(params.in.height_ - 1)) \X (0..(params.in.width_ - 1)) :
        is_connected(tbl, t[2], t[1])}}

\* the loop "accumulate db"
deconv_back_db(params) ==
  IF ~params.has_bias THEN {}
  ELSE {[dst |-> outc, src |-> get_index(params.out, 0, 0, outc) + j] :
        <<outc, j>> \in (0..(params.out.depth_ - 1))
                          \X (0..(params.out.width_ * params.out.height_ - 1))}

\* tiny_deconv2d_back_kernel: the terms added to prev_delta, dW and db
tiny_deconv2d_back_kernel(params, tbl) ==
  [prev_delta |-> deconv_back_prev_delta(params, tbl),
   dW |-> deconv_back_dW(params, tbl),
   db |-> deconv_back_db(params)]

-----------------------------------------------------------------------------
(* The engine tag of a layer (layer.h) and of a deconvolutional_layer.     *)
(* backend_type_ of layer has no initializer and no constructor sets it:   *)
(* it is Uninit until set_backend_type, and reading it then yields any tag.*)

\* deconvolutional_layer::init_backend: what it throws
init_backend(backend_type) ==
  IF backend_type \in {"internal", "nnpack", "avx"} THEN "none"
  ELSE "Not supported engine"

\* a constructor that also stores the tag in the layer
deconvolutional_layer_set_type(backend_type) ==
  [backend_type_ |-> <<backend_type>>, kernels |-> backend_type,
   fwd_engine |-> Uninit, bwd_engine |-> Uninit]

\* layer::layer followed by deconvolutional_layer's constructor body: the
\* members that hold an engine tag
deconvolutional_layer(backend_type) ==
  [backend_type_ |-> Uninit, kernels |-> backend_type,
   fwd_engine |-> Uninit, bwd_engine |-> Uninit]

\* layer::set_backend_type
set_backend_type(l, backend_type) ==
  [l EXCEPT !.backend_type_ = <<backend_type>>]

\* layer::engine: the values the call can return
layer_engine(l) ==
  IF l.backend_type_ = Uninit
  THEN {"internal", "nnpack", "libdnn", "avx", "opencl"}
  ELSE {l.backend_type_[1]}

-----------------------------------------------------------------------------
(* The calls context.ith_parameter(i) of the gradient kernels, in the      *)
(* order of the code: the index and the member called on the Parameter.    *)

\* one call context.ith_parameter(i)->member
ith_parameter(i, member) == <<[i |-> i, member |-> member]>>

\* FullyConnectedGradOp::compute
FullyConnectedGradOp_parameters(c) ==
  ith_parameter(0, "data")
  \o (IF c.has_bias THEN ith_parameter(1, "data") ELSE <<>>)
  \o ith_parameter(0, "grad")
  \o (IF c.has_bias THEN ith_parameter(1, "grad") ELSE <<>>)
  \o (IF c.engine \in {"internal", "avx"}
      THEN ith_parameter(0, "set_grad") \o ith_parameter(1, "set_grad")
      ELSE <<>>)

\* Conv2dGradOp::compute
Conv2dGradOp_parameters(c) ==
  ith_parameter(0, "data")
  \o ith_parameter(0, "grad")
  \o (IF c.has_bias THEN ith_parameter(1, "grad") ELSE <<>>)
  \o (IF c.engine \in {"internal", "avx"}
      THEN ith_parameter(0, "set_grad")
           \o (IF c.has_bias THEN ith_parameter(1, "set_grad") ELSE <<>>)
      ELSE <<>>)

-----------------------------------------------------------------------------
(* lrn_layer::forward_propagation (lrn_layer.h): in_data[0] is a tensor of *)
(* shape <<batch size, elements of one sample>>.                           *)

\* the loop with sample_count taken from the first dimension
lrn_samples_by_rows(shape, region) ==
  IF region = "across_channels" THEN [k \in 1..shape[1] |-> k - 1]
  ELSE IF shape[1] > 0 THEN <<0>> ELSE <<>>

\* the values of `sample` the loop passes to subView: sample_count is
\* in_data[0]->size(), and Tensor::size() is storage_.size(), the number
\* of elements of the tensor; forward_within throws in the first pass
lrn_samples(shape, region) ==
  LET sample_count == tensor_size(shape)
  IN  IF region = "across_channels" THEN [k \in 1..sample_count |-> k - 1]
      ELSE IF sample_count > 0 THEN <<0>> ELSE <<>>

\* forward_propagation: how often each row of out_data[0] was normalized,
\* and what the call throws
lrn_forward_propagation(shape, region) ==
  LET samples == lrn_samples(shape, region)
  IN  [samples |-> samples,
       normalized |-> [s \in 1..shape[1] |->
                         IF region = "across_channels"
                         THEN Cardinality({k \in 1..Len(samples) :
                                             samples[k] = s - 1})
                         ELSE 0],
       err |-> IF region = "across_channels" THEN "none"
               ELSE "not implemented"]

-----------------------------------------------------------------------------
(* The record of the last call: its name, the layer(s) and indices it was  *)
(* given, a count, a flag, and the error it threw.                         *)

NoLayers == <<>>

\* graph_traverse is not running
NoTrav == [active |-> FALSE, root |-> 0, S |-> <<>>, visited |-> {}]

\* the initial value of the variables a specification does not use
OthersIdle == trav = NoTrav /\ ctx = [op |-> "none"]

NoOp == [op |-> "none", l |-> 0, t |-> 0, hi |-> 0, ti |-> 0,
         n |-> 0, flag |-> FALSE, err |-> "none"]

Op(o) == [NoOp EXCEPT !.op = o]

-----------------------------------------------------------------------------
(* Spec: two layer objects, set up and connected in any order.             *)

\* most consumers one edge gets in the model (connect appends without limit)
MaxConsumers == 2

ShapeA == <<2, 1, 1>>
ShapeB == <<1, 2, 1>>
ShapeC == <<3, 1, 1>>
ShapeEmpty == <<0, 0, 0>>

\* the Parameters of a layer with weights: a weight and a bias, as the
\* deconvolutional_layer constructor adds them
WeightAndBias ==
  <<NewParameter("weight", 2, TRUE, 0), NewParameter("bias", 1, TRUE, 0)>>

\* The layers the model builds.  Besides layers whose shape lists match
\* their edge counts there are two that do not (a subclass whose in_shape()
\* or out_shape() lists a different number of shapes than it declared edge
\* types), and activation layers with and without a declared input shape.
LayerConfigs ==
  {NewLayer("generic", <<"data">>, <<"data">>, <<io[1]>>, <<io[2]>>,
            WeightAndBias) :
     io \in {<<ShapeA, ShapeA>>, <<ShapeA, ShapeB>>,
             <<ShapeB, ShapeC>>, <<ShapeC, ShapeA>>}}
  \cup
  {NewLayer("generic", <<"data", "data">>, <<"data", "data">>,
            <<ShapeA, ShapeC>>, <<ShapeA, ShapeC>>, WeightAndBias),
   NewLayer("generic", <<"data">>, <<"data">>, <<ShapeA, ShapeA>>,
            <<ShapeA>>, WeightAndBias),
   NewLayer("generic", <<"data">>, <<"data", "data">>, <<ShapeA>>,
            <<ShapeA>>, WeightAndBias)}
  \cup
  {NewLayer("activation", <<"data">>, <<"data">>, <<s>>, <<s>>, <<>>) :
     s \in {ShapeA, ShapeC, ShapeEmpty}}

LayerIds == {1, 2}

\* values a random initializer may draw
RandomDraws == {1, 2}

\* in_shape().size() == in_channels_ and out_shape().size() == out_channels_
ShapeCountsMatch(L) ==
  /\ Len(in_shape(L)) = in_channels_(L)
  /\ Len(out_shape(L)) = out_channels_(L)

Init ==
  /\ layers \in [LayerIds -> LayerConfigs]
  /\ edges = <<>>
  /\ lastOp = NoOp
  /\ events = <<>>
  /\ param = NewParameter("bias", 1, FALSE, 0)
  /\ dst = <<>>
  /\ OthersIdle

\* the state after a call
Commit(st, op) ==
  /\ layers' = st.layers
  /\ edges' = st.edges
  /\ events' = st.events
  /\ lastOp' = [op EXCEPT !.err = st.err]

DoSetup ==
  /\ \E l \in DOMAIN layers : \E reset \in BOOLEAN : \E rv \in RandomDraws :
       Commit(setup(St(layers, edges), l, reset, rv),
              [Op("setup") EXCEPT !.l = l, !.flag = reset])
  /\ UNCHANGED <<param, dst, otherVars>>

DoInitParameters ==
  /\ \E l \in DOMAIN layers : \E rv \in RandomDraws :
       Commit(init_parameters(St(layers, edges), l, rv),
              [Op("init_parameters") EXCEPT !.l = l])
  /\ UNCHANGED <<param, dst, otherVars>>

\* the consumers of head's output edge head_index (none while the edge does
\* not exist)
Consumers(ls, es, head, head_index) ==
  IF head_index \in DOMAIN ls[head].next_ /\ ls[head].next_[head_index] # Null
    THEN es[ls[head].next_[head_index]].next_
    ELSE <<>>

\* connect is called with indices that exist: head_index indexes
\* head->out_shape(), tail_index indexes tail->in_shape() and tail->prev_
DoConnect ==
  /\ \E h \in LayerIds : \E t \in LayerIds \ {h} :
     \E hi \in 1..Len(out_shape(layers[h])) :
     \E ti \in 1..Len(in_shape(layers[t])) :
     \E rv \in RandomDraws :
       /\ ti <= in_channels_(layers[t])
       /\ Len(Consumers(layers, edges, h, hi)) < MaxConsumers
       /\ Commit(connect(St(layers, edges), h, t, hi, ti, rv),
                 [Op("connect") EXCEPT !.l = h, !.t = t, !.hi = hi, !.ti = ti])
  /\ UNCHANGED <<param, dst, otherVars>>

Next == DoSetup \/ DoInitParameters \/ DoConnect

Spec == Init /\ [][Next]_vars

-----------------------------------------------------------------------------
(* C1 *)

\* C1: setup(reset) on a layer whose in_shape().size() differs from its
\* number of input edges, or whose out_shape().size() differs from its
\* number of output edges, throws "Connection mismatch at setup layer" and
\* leaves every layer (edge slots, Parameters) and every edge as it was.
C1_SetupMismatchThrowsFirst ==
  [][(lastOp'.op = "setup" /\ ~ShapeCountsMatch(layers[lastOp'.l])) =>
       /\ lastOp'.err = "Connection mismatch at setup layer"
       /\ layers' = layers
       /\ edges' = edges]_vars

\* setup has thrown on a layer that has no output edge yet and whose
\* Parameters are not initialized: what setup would have done is undone
C1_Witness ==
  /\ lastOp.op = "setup"
  /\ lastOp.err = "Connection mismatch at setup layer"
  /\ ~ShapeCountsMatch(layers[lastOp.l])
  /\ \E i \in DOMAIN layers[lastOp.l].next_ : layers[lastOp.l].next_[i] = Null
  /\ \E i \in DOMAIN layers[lastOp.l].parameters_ :
       ~layers[lastOp.l].parameters_[i].initialized

-----------------------------------------------------------------------------
(* C2 *)

\* the call recorded in lastOp' was connect(h, t, hi, ti) on a tail whose
\* declared input shape is not empty
ConnectCall(h, t, hi, ti) ==
  /\ lastOp'.op = "connect"
  /\ lastOp'.l = h /\ lastOp'.t = t /\ lastOp'.hi = hi /\ lastOp'.ti = ti
  /\ shape_size(in_shape(layers[t])[ti]) # 0

SizesEqual(h, t, hi, ti) ==
  shape_size(out_shape(layers[h])[hi]) = shape_size(in_shape(layers[t])[ti])

\* the step made the connection: tail's slot holds head's output edge and
\* tail was appended to the consumers of that edge
ConnectionMade(h, t, hi, ti) ==
  /\ lastOp'.err = "none"
  /\ layers'[h].next_[hi] # Null
  /\ layers'[t].prev_[ti] = layers'[h].next_[hi]
  /\ Consumers(layers', edges', h, hi)
       = Append(Consumers(layers, edges, h, hi), t)

\* the step left tail's slot and the consumers of head's edge alone
ConnectionNotMade(h, t, hi, ti) ==
  /\ layers'[t].prev_[ti] = layers[t].prev_[ti]
  /\ Consumers(layers', edges', h, hi) = Consumers(layers, edges, h, hi)

\* C2 as stated: with a non-empty declared tail input shape, connect makes
\* the connection if and only if the two sizes are equal, and when they
\* differ it raises "layer dimension mismatch" and makes no connection.
C2_AsStated ==
  [][\A h \in LayerIds, t \in LayerIds, hi \in 1..2, ti \in 1..2 :
       ConnectCall(h, t, hi, ti) =>
         /\ ConnectionMade(h, t, hi, ti) <=> SizesEqual(h, t, hi, ti)
         /\ ~SizesEqual(h, t, hi, ti) =>
              /\ lastOp'.err = "layer dimension mismatch!"
              /\ ConnectionNotMade(h, t, hi, ti)]_vars

\* C2 (amended): connect first runs head.setup(false).  When head's shape
\* counts do not match its edge counts, connect throws "Connection mismatch
\* at setup layer" and makes no connection, whatever the sizes.  Otherwise
\* it makes the connection if and only if the two sizes are equal, and when
\* they differ it raises "layer dimension mismatch" and makes no connection.
C2_ConnectChecksSizes ==
  [][\A h \in LayerIds, t \in LayerIds, hi \in 1..2, ti \in 1..2 :
       ConnectCall(h, t, hi, ti) =>
         IF ShapeCountsMatch(layers[h])
           THEN /\ ConnectionMade(h, t, hi, ti) <=> SizesEqual(h, t, hi, ti)
                /\ ~SizesEqual(h, t, hi, ti) =>
                     /\ lastOp'.err = "layer dimension mismatch!"
                     /\ ConnectionNotMade(h, t, hi, ti)
           ELSE /\ lastOp'.err = "Connection mismatch at setup layer"
                /\ ConnectionNotMade(h, t, hi, ti)]_vars

\* a connect of two layers of different sizes was refused while tail's slot
\* already held an edge from an earlier connect
C2_Witness ==
  /\ lastOp.op = "connect"
  /\ lastOp.err = "layer dimension mismatch!"
  /\ ShapeCountsMatch(layers[lastOp.l])
  /\ layers[lastOp.t].prev_[lastOp.ti] # Null

-----------------------------------------------------------------------------
(* C3 *)

\* C3: connect(head, tail) where tail is an activation layer constructed
\* with an empty input shape succeeds, and afterwards tail.in_shape()[0]
\* and tail.out_shape()[0] both equal head.out_shape()[head_index].
C3_ShapeInference ==
  [][\A h \in LayerIds, t \in LayerIds, hi \in 1..2 :
       (/\ lastOp'.op = "connect"
        /\ lastOp'.l = h /\ lastOp'.t = t /\ lastOp'.hi = hi
        /\ layers[t].kind = "activation"
        /\ shape_size(in_shape(layers[t])[1]) = 0
        /\ ShapeCountsMatch(layers[h])) =>
         /\ lastOp'.err = "none"
         /\ in_shape(layers'[t])[1] = out_shape(layers[h])[hi]
         /\ out_shape(layers'[t])[1] = out_shape(layers[h])[hi]]_vars

-----------------------------------------------------------------------------
(* SpecFwd: one layer object driven through setup, init_parameters,        *)
(* add_parameter, set_data on its weights, and forward(input, out) with    *)
(* batches of varying size.                                                *)

\* largest number of samples in one batch handed to forward
MaxBatch == 2

\* most Parameters the layer gets through add_parameter
MaxParameters == 2

\* values fresh tensor storage may hold
FreshValues == {0, 4}

\* the value every element of one input batch holds
InputValues == {1, 2}

\* a layer with one weight, and a layer with a second input and a second
\* output that are not data-typed
FwdConfigs ==
  {NewLayer("generic", <<"data">>, <<"data">>, <<ShapeA>>, <<ShapeB>>,
            <<NewParameter("weight", 2, TRUE, 0)>>),
   NewLayer("generic", <<"data", "aux">>, <<"data", "aux">>,
            <<ShapeA, ShapeB>>, <<ShapeB, ShapeA>>, WeightAndBias)}

\* data a caller installs in a Parameter with set_data
DataVectors(size) == IF size = 2 THEN {<<0, 0>>, <<3, 7>>} ELSE {<<0>>, <<3>>}

\* the argument of forward(input, out): one tensor of n samples for every
\* data-typed input of the layer
Inputs(L, n, v) ==
  LET ch == DataChannels(L.in_type_) IN
  [k \in 1..Len(ch) |-> Fill2(n, shape_size(in_shape(L)[ch[k]]), v)]

InitFwd ==
  /\ layers \in [{1} -> FwdConfigs]
  /\ edges = <<>>
  /\ lastOp = NoOp
  /\ events = <<>>
  /\ param = NewParameter("bias", 1, FALSE, 0)
  /\ dst = <<>>
  /\ OthersIdle

FwdForward ==
  /\ \E n \in 1..MaxBatch : \E v \in InputValues :
     \E rv \in RandomDraws : \E fv \in FreshValues :
       Commit(forward_input(St(layers, edges), 1,
                            Inputs(layers[1], n, v), rv, fv),
              [Op("forward") EXCEPT !.l = 1, !.n = n])
  /\ UNCHANGED <<param, dst, otherVars>>

\* the caller installs weights in the layer's first Parameter
FwdSetData ==
  /\ Len(layers[1].parameters_) >= 1
  /\ \E d \in DataVectors(layers[1].parameters_[1].size) :
       Commit([St(layers, edges) EXCEPT
                 !.layers[1].parameters_[1] = set_data(@, d)],
              [Op("set_data") EXCEPT !.l = 1])
  /\ UNCHANGED <<param, dst, otherVars>>

FwdAddParameter ==
  /\ Len(layers[1].parameters_) < MaxParameters
  /\ Commit(add_parameter(St(layers, edges), 1, 1, "bias", TRUE, 0),
            [Op("add_parameter") EXCEPT !.l = 1])
  /\ UNCHANGED <<param, dst, otherVars>>

NextFwd ==
  FwdForward \/ FwdSetData \/ FwdAddParameter \/ DoSetup \/ DoInitParameters

SpecFwd == InitFwd /\ [][NextFwd]_vars

-----------------------------------------------------------------------------
(* C4 *)

\* the edges in the input slots of layer l that are data-typed
DataInputEdges(ls, es, l) ==
  {ls[l].prev_[i] : i \in 1..Len(ls[l].prev_)} \cap
    {e \in 1..Len(es) : es[e].vtype_ = "data" /\ es[e].prev_ = Null}

\* C4 as stated: in no step does the number of rows of the data tensor or
\* of the gradient tensor of an input or output edge of the layer decrease.
C4_AsStated ==
  [][\A e \in 1..Len(edges) :
       /\ Len(edges'[e].data_) >= Len(edges[e].data_)
       /\ Len(edges'[e].grad_) >= Len(edges[e].grad_)]_vars

\* C4 (amended): in no step does the number of rows of the gradient tensor
\* of an input or output edge decrease, nor that of the data tensor of an
\* output edge or of an input edge that is not data-typed.  The data tensor
\* of a data-typed input edge is resized by set_in_data to exactly the N
\* samples of the pass, also when an earlier pass had more.
C4_BatchDimGrowOnly ==
  [][\A e \in 1..Len(edges) :
       /\ Len(edges'[e].grad_) >= Len(edges[e].grad_)
       /\ IF lastOp'.op = "forward" /\ e \in DataInputEdges(layers, edges, 1)
            THEN Len(edges'[e].data_) = lastOp'.n
            ELSE Len(edges'[e].data_) >= Len(edges[e].data_)]_vars

\* a pass with one sample after a pass with two: the output edge still has
\* two rows of data and of gradient, the data-typed input edge has one row
\* of data and two of gradient
C4_Witness ==
  /\ lastOp.op = "forward" /\ lastOp.n = 1 /\ lastOp.err = "none"
  /\ layers[1].next_[1] # Null /\ layers[1].prev_[1] # Null
  /\ Len(edges[layers[1].next_[1]].data_) = 2
  /\ Len(edges[layers[1].next_[1]].grad_) = 2
  /\ Len(edges[layers[1].prev_[1]].data_) = 1
  /\ Len(edges[layers[1].prev_[1]].grad_) = 2

-----------------------------------------------------------------------------
(* C5 *)

\* the rows output tensor k of layer 1 has before a call (a fresh edge has
\* one row)
RowsBefore(k) ==
  LET e == layers[1].next_[DataChannels(layers[1].out_type_)[k]]
  IN  IF e = Null THEN <<>> ELSE edges[e].data_

-----------------------------------------------------------------------------
(* C9 *)

\* C9 as stated: setup(false), called directly or by forward, changes the
\* data of a Parameter only if that Parameter was not initialized: a
\* Parameter that is initialized keeps its data, also in a layer that holds
\* uninitialized Parameters besides it, and so weights installed with
\* set_data after init_parameters() are still there after forward.
C9_SetupKeepsInitialized ==
  [][((lastOp'.op = "setup" /\ ~lastOp'.flag) \/ lastOp'.op = "forward") =>
       \A i \in 1..Len(layers[1].parameters_) :
         layers[1].parameters_[i].initialized =>
           layers'[1].parameters_[i].data = layers[1].parameters_[i].data]_vars

-----------------------------------------------------------------------------
(* SpecUpd: one layer object whose gradients are sized by set_sample_count *)
(* and written by backward, and whose Parameters are updated by            *)
(* update_parameters.                                                      *)

\* batch sizes update_parameters is called with
BatchSizes == {1, 2}

\* the scale of the gradients one backward pass writes (a multiple of every
\* batch size)
GradScales == {4}

\* gradient_descent with learning rate 1 and weight decay 1: the updated
\* weights, W - (dW + W), stay in a finite range over any number of updates
Optimizers == {[alpha |-> 1, lambda |-> 1]}

\* a layer with a trainable weight and a bias that is frozen from
\* construction, and a layer without Parameters
UpdConfigs ==
  {NewLayer("generic", <<"data">>, <<"data">>, <<ShapeA>>, <<ShapeB>>,
            <<NewParameter("weight", 2, TRUE, 0),
              NewParameter("bias", 1, FALSE, 0)>>),
   NewLayer("generic", <<"data">>, <<"data">>, <<ShapeA>>, <<ShapeA>>, <<>>)}

InitUpd ==
  /\ layers \in [{1} -> UpdConfigs]
  /\ edges = <<>>
  /\ lastOp = NoOp
  /\ events = <<>>
  /\ param = NewParameter("bias", 1, FALSE, 0)
  /\ dst = <<>>
  /\ OthersIdle

UpdSetSampleCount ==
  /\ \E n \in 1..MaxBatch : \E fv \in FreshValues :
       Commit(set_sample_count(St(layers, edges), 1, n, fv),
              [Op("set_sample_count") EXCEPT !.l = 1, !.n = n])
  /\ UNCHANGED <<param, dst, otherVars>>

UpdBackward ==
  /\ \E g \in GradScales :
       Commit(backward(St(layers, edges), 1, g),
              [Op("backward") EXCEPT !.l = 1])
  /\ UNCHANGED <<param, dst, otherVars>>

UpdSetTrainable ==
  /\ \E t \in BOOLEAN :
       Commit(set_trainable(St(layers, edges), 1, t),
              [Op("set_trainable") EXCEPT !.l = 1, !.flag = t])
  /\ UNCHANGED <<param, dst, otherVars>>

UpdUpdateParameters ==
  /\ \E opt \in Optimizers : \E batch_size \in BatchSizes :
       Commit(update_parameters(St(layers, edges), 1, opt, batch_size),
              [Op("update_parameters") EXCEPT !.l = 1, !.n = batch_size])
  /\ UNCHANGED <<param, dst, otherVars>>

NextUpd ==
  \/ UpdSetSampleCount
  \/ UpdBackward
  \/ UpdSetTrainable
  \/ UpdUpdateParameters
  \/ DoInitParameters

SpecUpd == InitUpd /\ [][NextUpd]_vars

\* the indices of the trainable Parameters of layer 1, in parameter order
Trainable ==
  SelectSeq([i \in 1..Len(layers[1].parameters_) |-> i],
            LAMBDA i : layers[1].parameters_[i].trainable)

\* the optimizer calls of the step, in the order they were made
UpdateEvents == SelectSeq(events', LAMBDA e : e.ev = "update")

-----------------------------------------------------------------------------
(* C6 *)

\* C6: update_parameters(optimizer, batchSize) calls optimizer.update once
\* for every trainable Parameter, in parameter order.  For Parameter p the
\* gradient it passes is, element by element, the sum over all rows of p's
\* gradient tensor divided by batchSize, the weights it passes are p's
\* data, and the updated weights are p's data after the call.
C6_UpdateCalls ==
  [][lastOp'.op = "update_parameters" =>
       /\ Len(UpdateEvents) = Len(Trainable)
       /\ \A k \in 1..Len(Trainable) :
            LET p == layers[1].parameters_[Trainable[k]]
                u == UpdateEvents[k]
            IN  /\ u.p = Trainable[k]
                /\ Len(u.dW) = p.size
                /\ \A j \in 1..p.size :
                     u.dW[j] * lastOp'.n = ColumnSum(p.grad, j, Len(p.grad))
                /\ u.W = p.data
                /\ layers'[1].parameters_[Trainable[k]].data = u.Wnew]_vars

\* an update with batch size 2 of a weight and a bias whose gradients hold
\* two rows written by backward: the optimizer got the halved column sums
C6_Witness ==
  /\ lastOp.op = "update_parameters" /\ lastOp.n = 2
  /\ Len(events) = 4
  /\ events[1].ev = "update" /\ events[1].p = 1 /\ events[1].dW = <<6, 10>>
  /\ events[2].ev = "update" /\ events[2].p = 2 /\ events[2].dW = <<6>>
  /\ events[1].Wnew # events[1].W

-----------------------------------------------------------------------------
(* C7 *)

\* C7: in update_parameters every optimizer call comes before the clearing
\* of the gradients, the post-update hook runs exactly once, last, after the clear, also when
\* no Parameter is trainable; on return the gradient tensor of every
\* Parameter, trainable or not, and of every input edge is all zeros.
C7_ClearThenHook ==
  [][lastOp'.op = "update_parameters" =>
       LET n == Len(events') IN
       /\ n = Len(Trainable) + 2
       /\ \A k \in 1..(n - 2) : events'[k].ev = "update"
       /\ events'[n - 1].ev = "clear_grads"
       /\ events'[n].ev = "post_update"
       /\ \A i \in 1..Len(layers'[1].parameters_) :
            IsZero2(layers'[1].parameters_[i].grad)
       /\ \A i \in 1..Len(layers'[1].prev_) :
            /\ layers'[1].prev_[i] # Null
            /\ IsZero2(edges'[layers'[1].prev_[i]].grad_)]_vars

\* an update has returned on a layer with a frozen Parameter whose
\* gradients and input edge gradient the last backward pass had filled
C7_Witness ==
  /\ lastOp.op = "update_parameters"
  /\ Len(layers[1].parameters_) = 2
  /\ ~layers[1].parameters_[2].trainable
  /\ Len(layers[1].parameters_[2].grad) = 2
  /\ Len(events) = 3 /\ events[1].ev = "update" /\ events[1].dW = <<6, 10>>
  /\ events[3].ev = "post_update"

-----------------------------------------------------------------------------
(* C8 *)

\* C8: update_parameters does not change the data of a Parameter whose
\* trainable flag is false and does not pass it to the optimizer; when no
\* Parameter of the layer is trainable (after set_trainable(false)) the
\* data of all its Parameters is unchanged and the optimizer is not called.
C8_FrozenUntouched ==
  [][lastOp'.op = "update_parameters" =>
       /\ \A i \in 1..Len(layers[1].parameters_) :
            ~layers[1].parameters_[i].trainable =>
              /\ layers'[1].parameters_[i].data = layers[1].parameters_[i].data
              /\ \A k \in 1..Len(events') :
                   events'[k].ev = "update" => events'[k].p # i
       /\ Len(Trainable) = 0 =>
            \A k \in 1..Len(events') : events'[k].ev # "update"]_vars

\* after set_trainable(false) an update has run over Parameters that are
\* initialized: it cleared the gradients and ran the hook, nothing else
C8_Witness ==
  /\ lastOp.op = "update_parameters"
  /\ Len(layers[1].parameters_) = 2
  /\ \A i \in 1..2 : ~layers[1].parameters_[i].trainable
  /\ layers[1].parameters_[1].initialized
  /\ layers[1].parameters_[1].data # <<0, 0>>
  /\ Len(events) = 2

-----------------------------------------------------------------------------
(* SpecParam: one Parameter object driven through its public interface.    *)

\* per-sample gradient rows the callers hand in (test_parameter.h uses
\* the rows of size 2)
SampleRows(size) ==
  IF size = 2 THEN {<<1, 2>>, <<2, 1>>, <<-4, 5>>} ELSE {<<1>>, <<-4>>}

GradTensors(size) ==
  UNION {[1..n -> SampleRows(size)] : n \in 1..MaxRows}

\* buffers a caller may pass as dst: empty, zero, or holding old values
DstBuffers == {<<>>, <<0, 0>>, <<9, 9>>, <<9>>, <<9, 9, 9>>}

InitParam ==
  /\ layers = NoLayers
  /\ edges = <<>>
  /\ lastOp = NoOp
  /\ events = <<>>
  /\ \E size \in {1, 2} : \E ty \in {"weight", "bias"} :
       param = NewParameter(ty, size, FALSE, 0)
  /\ dst \in DstBuffers
  /\ OthersIdle

PSetGrad ==
  /\ \E g \in GradTensors(param.size) : param' = set_grad(param, g)
  /\ lastOp' = Op("set_grad")
  /\ UNCHANGED <<layers, edges, events, dst, otherVars>>

PSetData ==
  /\ \E d \in DataVectors(param.size) : param' = set_data(param, d)
  /\ lastOp' = Op("set_data")
  /\ UNCHANGED <<layers, edges, events, dst, otherVars>>

PResizeGrad ==
  /\ \E n \in 1..MaxRows : \E fv \in {0, 1} :
       param' = resize_grad(param, n, fv)
  /\ lastOp' = Op("resize_grad")
  /\ UNCHANGED <<layers, edges, events, dst, otherVars>>

PClearGrads ==
  /\ param' = parameter_clear_grads(param)
  /\ lastOp' = Op("clear_grads")
  /\ UNCHANGED <<layers, edges, events, dst, otherVars>>

\* the caller passes either the buffer it holds or a fresh one
PMergeGrads ==
  /\ \E d \in {dst} \cup DstBuffers : dst' = merge_grads(param, d)
  /\ lastOp' = Op("merge_grads")
  /\ UNCHANGED <<layers, edges, events, param, otherVars>>

NextParam == PSetGrad \/ PSetData \/ PResizeGrad \/ PClearGrads \/ PMergeGrads

SpecParam == InitParam /\ [][NextParam]_vars

-----------------------------------------------------------------------------
(* C10 *)

\* C10: merge_grads(dst) leaves *dst with the Parameter's flat size, holding
\* in element i the sum over all batch rows r of grad[r][i], whatever dst
\* held before; the Parameter's gradient tensor and data are unchanged.
C10_MergeGrads ==
  [][lastOp'.op = "merge_grads" =>
       /\ Len(dst') = param.size
       /\ \A i \in 1..param.size :
            dst'[i] = ColumnSum(param.grad, i, Len(param.grad))
       /\ param' = param]_vars

\* a merge of three samples into a buffer that held other values before
C10_Witness ==
  /\ lastOp.op = "merge_grads"
  /\ param.grad = <<<<1, 2>>, <<2, 1>>, <<-4, 5>>>>
  /\ dst = <<-1, 8>>

-----------------------------------------------------------------------------
(* SpecSetters: one Parameter object with set_dims, and with callers that  *)
(* hand set_data and set_grad a tensor of any shape.                       *)

\* (width, height, depth, n_fmaps) a caller passes to set_dims
Dims == {<<1, 1, 1, 1>>, <<2, 1, 1, 1>>, <<1, 2, 1, 1>>, <<1, 1, 1, 2>>}

\* tensors a caller may pass to set_data: of size(), or not
AnyData == {<<3>>, <<3, 7>>, <<3, 7, 9>>}

\* tensors a caller may pass to set_grad: two-dimensional, of any shape
AnyGrads == {Fill2(r, c, 1) : r \in 1..2, c \in 1..2}

PSetDims ==
  /\ \E d \in Dims : \E fv \in {0, 1} :
       param' = set_dims(param, d[1], d[2], d[3], d[4], fv)
  /\ lastOp' = Op("set_dims")
  /\ UNCHANGED <<layers, edges, events, dst, otherVars>>

PSetAnyData ==
  /\ \E d \in AnyData : param' = set_data(param, d)
  /\ lastOp' = [Op("set_data") EXCEPT !.flag = TRUE]
  /\ UNCHANGED <<layers, edges, events, dst, otherVars>>

PSetAnyGrad ==
  /\ \E g \in AnyGrads : param' = set_grad(param, g)
  /\ lastOp' = [Op("set_grad") EXCEPT !.flag = TRUE]
  /\ UNCHANGED <<layers, edges, events, dst, otherVars>>

InitSetters ==
  /\ layers = NoLayers
  /\ edges = <<>>
  /\ lastOp = NoOp
  /\ events = <<>>
  /\ \E size \in {1, 2} : param = NewParameter("weight", size, TRUE, 0)
  /\ dst = <<>>
  /\ OthersIdle

NextSetters ==
  \/ PSetDims \/ PSetAnyData \/ PSetAnyGrad
  \/ PResizeGrad \/ PClearGrads \/ PMergeGrads

SpecSetters == InitSetters /\ [][NextSetters]_vars

-----------------------------------------------------------------------------
(* C11 *)

\* C11: after any sequence of Parameter operations (construction, set_dims,
\* set_data, set_grad, resize_grad, clear_grads, merge_grads) every row of
\* the gradient tensor has data.size() elements, and data.size() equals the
\* Parameter's size().
C11_ShapesAgree ==
  /\ Len(param.data) = param.size
  /\ \A r \in 1..Len(param.grad) : Len(param.grad[r]) = Len(param.data)

-----------------------------------------------------------------------------
(* SpecTrav: graph_traverse over layer graphs built with connect.          *)

\* the layers of the graphs: two inputs and two outputs of one shape each
TravLayer ==
  NewLayer("generic", <<"data", "data">>, <<"data", "data">>,
           <<ShapeA, ShapeA>>, <<ShapeA, ShapeA>>, <<>>)

TravIds == 1..4

RECURSIVE Build(_, _)
\* the state after the connect calls of a list, each <<head, tail,
\* head_index, tail_index>>
Build(st, conns) ==
  IF conns = <<>> THEN st
  ELSE Build(connect(st, conns[1][1], conns[1][2], conns[1][3], conns[1][4], 1),
             Tail(conns))

\* chains, a tree, diamonds (through two output edges and through one
\* shared edge), two layers linked twice, and layers left unconnected
TravGraphs ==
  {<< >>,
   <<<<1, 2, 1, 1>>>>,
   <<<<1, 2, 1, 1>>, <<2, 3, 1, 1>>>>,
   <<<<1, 2, 1, 1>>, <<2, 3, 1, 1>>, <<3, 4, 1, 1>>>>,
   <<<<1, 2, 1, 1>>, <<1, 3, 2, 1>>, <<2, 4, 1, 1>>>>,
   <<<<1, 2, 1, 1>>, <<1, 3, 2, 1>>, <<2, 4, 1, 1>>, <<3, 4, 1, 2>>>>,
   <<<<1, 2, 1, 1>>, <<1, 3, 1, 1>>>>,
   <<<<1, 2, 1, 1>>, <<1, 3, 1, 1>>, <<2, 4, 1, 1>>, <<3, 4, 1, 2>>>>,
   <<<<1, 2, 1, 1>>, <<1, 2, 2, 2>>>>,
   <<<<1, 3, 1, 1>>, <<2, 3, 1, 2>>, <<3, 4, 1, 1>>>>}

InitTrav ==
  /\ \E g \in TravGraphs :
       LET st == Build(St([l \in TravIds |-> TravLayer], <<>>), g)
       IN  layers = st.layers /\ edges = st.edges
  /\ lastOp = NoOp
  /\ events = <<>>
  /\ param = NewParameter("bias", 1, FALSE, 0)
  /\ dst = <<>>
  /\ trav = NoTrav
  /\ ctx = NoCtx

\* graph_traverse(root, node_callback, edge_callback) is called
TravBegin ==
  /\ ~trav.active /\ lastOp.op = "none"
  /\ \E root \in TravIds : trav' = graph_traverse_begin(root)
  /\ events' = <<>>
  /\ lastOp' = Op("graph_traverse")
  /\ UNCHANGED <<layers, edges, param, dst, ctx>>

\* one iteration of the while loop
TravStep ==
  /\ trav.active /\ trav.S # <<>>
  /\ trav' = graph_traverse_step(layers, edges, trav)
  /\ events' = events \o graph_traverse_callbacks(layers, trav)
  /\ UNCHANGED <<layers, edges, lastOp, param, dst, ctx>>

\* the queue is empty: graph_traverse returns
TravReturn ==
  /\ trav.active /\ trav.S = <<>>
  /\ trav' = [trav EXCEPT !.active = FALSE]
  /\ UNCHANGED <<layers, edges, lastOp, events, param, dst, ctx>>

NextTrav == TravBegin \/ TravStep \/ TravReturn

SpecTrav == InitTrav /\ [][NextTrav]_vars

\* the scheduler of a sequential program: a call that can take its next
\* step takes it
SpecTravLive == SpecTrav /\ WF_vars(TravStep) /\ WF_vars(TravReturn)

\* how often node_callback was called for layer l
NodeCalls(l) == Len(SelectSeq(events, LAMBDA e : e.ev = "node" /\ e.l = l))

\* layers a and b are joined by an edge, in either direction
Linked(a, b) ==
  \E e \in 1..Len(edges) :
    LET ends == {edges[e].prev_} \cup {edges[e].next_[k] :
                                         k \in 1..Len(edges[e].next_)}
    IN  a \in ends /\ b \in ends

RECURSIVE Reach(_)
\* the layers joined to a set of layers through any chain of edges
Reach(A) ==
  LET B == A \cup {b \in TravIds : \E a \in A : Linked(a, b)}
  IN  IF B = A THEN A ELSE Reach(B)

-----------------------------------------------------------------------------
(* C12 *)

\* C12: graph_traverse calls the node callback at most once for each layer,
\* on every layer graph, diamond-shaped ones included.
C12_AtMostOnce == \A l \in TravIds : NodeCalls(l) <= 1

-----------------------------------------------------------------------------
(* C13 *)

\* C13: graph_traverse terminates on every layer graph, and when it returns
\* every layer connected to the root through any chain of predecessor or
\* successor edges has been passed to the node callback.
C13_TerminatesComplete ==
  trav.active ~>
    (/\ ~trav.active
     /\ \A l \in Reach({trav.root}) : NodeCalls(l) >= 1)

\* a traversal has returned that started in the middle of a diamond and
\* reached all four layers
C13_Witness ==
  /\ lastOp.op = "graph_traverse" /\ ~trav.active
  /\ trav.root = 2
  /\ Reach({2}) = TravIds
  /\ \A l \in TravIds : NodeCalls(l) >= 1
  /\ \E e \in 1..Len(edges) : Len(edges[e].next_) = 2

-----------------------------------------------------------------------------
(* SpecConv: the convolution kernel applied to drawn operands.             *)

\* padded input width and height, kernel width and height, strides
ConvGeometries ==
  {<<2, 1, 2, 1, 1, 1>>, <<3, 1, 1, 1, 2, 1>>, <<3, 1, 2, 1, 1, 1>>,
   <<2, 3, 2, 1, 1, 2>>}

ConvTables == [{1, 2} -> [{1, 2} -> BOOLEAN]]

\* conv_params of two input and two output channels
ConvParams ==
  {[in |-> shape3d(g[1], g[2], 2),
    in_padded |-> shape3d(g[1], g[2], 2),
    out |-> shape3d(((g[1] - g[3]) \div g[5]) + 1, ((g[2] - g[4]) \div g[6]) + 1, 2),
    weight |-> shape3d(g[3], g[4], 4),
    tbl |-> <<t[1], t[2]>> ,
    has_bias |-> b, w_stride |-> g[5], h_stride |-> g[6]] :
   g \in ConvGeometries, t \in ConvTables, b \in BOOLEAN}

\* vectors of n elements
Pattern(q, n) == [k \in 1..n |-> IF q = 1 THEN k ELSE ((k * k) % 5) + 1]

\* what a channel or the weights of one pair are replaced with
AltValues == {0, 1, 5}

InitConv ==
  /\ layers = NoLayers /\ edges = <<>> /\ events = <<>>
  /\ lastOp = NoOp
  /\ param = NewParameter("bias", 1, FALSE, 0)
  /\ dst = <<>>
  /\ trav = NoTrav
  /\ \E params \in ConvParams, n \in 1..2, f \in {0, 3}, q \in 1..2 :
     LET in == Pattern(q, shape_len(params.in_padded))
         W  == Pattern(3 - q, shape_len(params.weight))
         d  == Pattern(q, shape_len(params.out))
     IN
       ctx = [op |-> "conv", params |-> params,
              in_data |-> [s \in 1..n |-> [k \in 1..Len(in) |-> in[k] + s - 1]],
              W |-> W, bias |-> <<2, 3>>,
              out_data |-> Fill2(n, shape_len(params.out), f),
              curr_delta |-> [s \in 1..n |-> [k \in 1..Len(d) |-> d[k] + s - 1]],
              prev_delta |-> Fill2(n, shape_len(params.in_padded), f),
              dW |-> Fill2(n, shape_len(params.weight), f),
              db |-> Fill2(n, 2, f)]

\* the forward kernel runs
ConvForward ==
  /\ lastOp.op = "none"
  /\ ctx' = [ctx EXCEPT !.out_data =
               conv2d_op_custom_forward(ctx.in_data, ctx.W, ctx.bias,
                                        ctx.out_data, ctx.params)]
  /\ lastOp' = Op("conv2d_forward")
  /\ UNCHANGED <<layers, edges, events, param, dst, trav>>

\* the backward kernel runs
ConvBackward ==
  /\ lastOp.op \in {"none", "conv2d_forward"}
  /\ LET r == conv2d_op_custom_backward(ctx.in_data, ctx.W, ctx.dW, ctx.db,
                                        ctx.curr_delta, ctx.prev_delta,
                                        ctx.params)
     IN  ctx' = [ctx EXCEPT !.prev_delta = r.prev_delta, !.dW = r.dW,
                            !.db = r.db]
  /\ lastOp' = Op("conv2d_backward")
  /\ UNCHANGED <<layers, edges, events, param, dst, trav>>

NextConv == ConvForward \/ ConvBackward

SpecConv == InitConv /\ [][NextConv]_vars

-----------------------------------------------------------------------------
(* C14 *)

\* the pairs the connection table marks as disconnected
Disconnected(params) ==
  {p \in (0..(params.out.depth_ - 1)) \X (0..(params.in.depth_ - 1)) :
     ~is_connected(params.tbl, p[1], p[2])}

\* t with channel c of every sample (laid out by shape) set to v
AltChannel(t, shape, c, v) ==
  [s \in 1..Len(t) |->
     [k \in 1..Len(t[s]) |-> IF k \in ChannelIndices(shape, c) THEN v ELSE t[s][k]]]

\* W with the weights of the pair (o, inc) set to v
AltWeights(W, params, o, inc, v) ==
  [k \in 1..Len(W) |-> IF k \in WeightIndices(params, o, inc) THEN v ELSE W[k]]

\* channel c of every sample of t
ChannelOf(t, shape, c) ==
  [s \in 1..Len(t) |-> [k \in ChannelIndices(shape, c) |-> t[s][k]]]

\* C14: when the connection table marks (o, inc) as disconnected, output
\* channel o of the forward pass is the same in any two runs that differ
\* only in input channel inc and in the weights of (o, inc); the backward
\* pass leaves the weight-gradient entries of (o, inc) as they were, and
\* prev_delta of channel inc is the same in any two runs that differ only
\* in curr_delta of channel o and in the weights of (o, inc).
C14_DisconnectedNoContribution ==
  [][/\ lastOp'.op = "conv2d_forward" =>
          \A p \in Disconnected(ctx.params) : \A v, u \in AltValues :
            ChannelOf(conv2d_op_custom_forward(
                        AltChannel(ctx.in_data, ctx.params.in_padded, p[2], v),
                        AltWeights(ctx.W, ctx.params, p[1], p[2], u),
                        ctx.bias, ctx.out_data, ctx.params),
                      ctx.params.out, p[1])
              = ChannelOf(ctx'.out_data, ctx.params.out, p[1])
     /\ lastOp'.op = "conv2d_backward" =>
          \A p \in Disconnected(ctx.params) :
            /\ \A s \in 1..Len(ctx.dW) :
                 \A k \in WeightIndices(ctx.params, p[1], p[2]) :
                   ctx'.dW[s][k] = ctx.dW[s][k]
            /\ \A v, u \in AltValues :
                 ChannelOf(conv2d_op_custom_backward(
                             ctx.in_data,
                             AltWeights(ctx.W, ctx.params, p[1], p[2], u),
                             ctx.dW, ctx.db,
                             AltChannel(ctx.curr_delta, ctx.params.out, p[1], v),
                             ctx.prev_delta, ctx.params).prev_delta,
                           ctx.params.in_padded, p[2])
                   = ChannelOf(ctx'.prev_delta, ctx.params.in_padded, p[2])
    ]_vars

\* forward and backward have run with (0, 1) disconnected and (0, 0), (1, 1)
\* connected, on two samples with a kernel two wide
C14_Witness ==
  /\ lastOp.op = "conv2d_backward" /\ ctx.op = "conv"
  /\ ~is_connected(ctx.params.tbl, 0, 1)
  /\ is_connected(ctx.params.tbl, 0, 0) /\ is_connected(ctx.params.tbl, 1, 1)
  /\ ctx.params.weight.width_ = 2
  /\ Len(ctx.in_data) = 2
  /\ ctx.out_data # Fill2(2, shape_len(ctx.params.out), 0)
  /\ ctx.out_data # Fill2(2, shape_len(ctx.params.out), 3)
  /\ ctx.dW # Fill2(2, shape_len(ctx.params.weight), 0)
  /\ ctx.dW # Fill2(2, shape_len(ctx.params.weight), 3)

-----------------------------------------------------------------------------
(* SpecOps: compute() of the three OpKernels under every engine.           *)

Kinds == {"FullyConnectedOp", "FullyConnectedGradOp", "Conv2dGradOp"}

\* core::backend_t
Engines == {"internal", "nnpack", "libdnn", "avx", "opencl"}

\* the convolution of the Conv2dGradOp contexts: two channels in and out,
\* input three wide, kernel two wide, fully connected
OpsConvParams ==
  [in |-> shape3d(3, 1, 2), in_padded |-> shape3d(3, 1, 2),
   out |-> shape3d(2, 1, 2), weight |-> shape3d(2, 1, 4),
   tbl |-> <<<<TRUE, TRUE>>, <<TRUE, TRUE>>>>,
   has_bias |-> TRUE, w_stride |-> 1, h_stride |-> 1]

\* the context of a kernel: n samples, buffers filled with f
OpsContext(kind, engine, has_bias, n, f, q) ==
  LET conv == kind = "Conv2dGradOp"
      ins  == IF conv THEN shape_len(OpsConvParams.in_padded) ELSE 2
      outs == IF conv THEN shape_len(OpsConvParams.out) ELSE 2
      ws   == IF conv THEN shape_len(OpsConvParams.weight) ELSE ins * outs
  IN  [op |-> "compute", kind |-> kind, engine |-> engine,
       has_bias |-> has_bias,
       params |-> [OpsConvParams EXCEPT !.has_bias = has_bias],
       input |-> [s \in 1..n |-> Pattern(q, ins)],
       W |-> <<Pattern(3 - q, ws)>>,
       bias |-> <<Pattern(q, IF conv THEN 2 ELSE outs)>>,
       output |-> Fill2(n, outs, f),
       output_grad |-> [s \in 1..n |-> Pattern(q, outs)],
       input_grad |-> Fill2(n, ins, f),
       dW |-> Fill2(n, ws, f),
       db |-> Fill2(n, IF conv THEN 2 ELSE outs, f)]

InitOps ==
  /\ layers = NoLayers /\ edges = <<>> /\ events = <<>>
  /\ lastOp = NoOp
  /\ param = NewParameter("bias", 1, FALSE, 0)
  /\ dst = <<>>
  /\ trav = NoTrav
  /\ \E kind \in Kinds, engine \in Engines, has_bias \in BOOLEAN,
        n \in 1..2, f \in {0, 3}, q \in 1..2 :
       ctx = OpsContext(kind, engine, has_bias, n, f, q)

\* compute(context) is called
OpsCompute ==
  /\ lastOp.op = "none"
  /\ LET r == compute(ctx)
     IN  /\ ctx' = r.ctx
         /\ lastOp' = [Op("compute") EXCEPT !.err = r.err]
  /\ UNCHANGED <<layers, edges, events, param, dst, trav>>

NextOps == OpsCompute

SpecOps == InitOps /\ [][NextOps]_vars

-----------------------------------------------------------------------------
(* C15 *)

\* C15: when compute() of Conv2dGradOp, FullyConnectedOp or
\* FullyConnectedGradOp throws 'Not supported engine', the output data, the
\* input gradients and the Parameter gradients of the context are exactly
\* what they were before the call.
C15_ThrowLeavesContext ==
  [][lastOp'.err = "Not supported engine" =>
       /\ ctx'.output = ctx.output
       /\ ctx'.input_grad = ctx.input_grad
       /\ ctx'.dW = ctx.dW /\ ctx'.db = ctx.db]_vars

-----------------------------------------------------------------------------
(* SpecNnp: calls on an nnp_backend.                                       *)

\* the conv_params / deconv_params fields the backend reads
NnpParams ==
  [has_bias : BOOLEAN, w_stride : {1, 2}, h_stride : {1, 2}]

\* what the NNPACK kernel leaves in the output
KernelValues == {5, 6}

NnpOps ==
  {"conv2d", "conv2d_back", "deconv2d", "deconv2d_back", "matmul",
   "maxpool", "maxpool_back", "fully", "fully_back"}

InitNnp ==
  /\ layers = NoLayers /\ edges = <<>> /\ events = <<>>
  /\ lastOp = NoOp
  /\ param = NewParameter("bias", 1, FALSE, 0)
  /\ dst = <<>>
  /\ trav = NoTrav
  /\ \E built \in {"conv", "deconv", "default"}, params \in NnpParams,
        use_nnpack \in BOOLEAN, f \in {0, 3} :
       ctx = [op |-> "nnp", backend |-> nnp_backend(built, params),
              use_nnpack |-> use_nnpack,
              in_data |-> <<Fill1(2, 1), Fill1(2, 2), Fill1(1, 1)>>,
              out_data |-> <<Fill1(2, f), Fill1(2, f)>>,
              out_grad |-> <<Fill1(2, f), Fill1(2, 1)>>,
              in_grad |-> <<Fill1(2, f), Fill1(2, f), Fill1(1, f)>>]

\* the result r of a call becomes the state
NnpCommit(name, r) ==
  /\ ctx' = r.ctx
  /\ lastOp' = [Op(name) EXCEPT !.err = r.err]
  /\ UNCHANGED <<layers, edges, events, param, dst, trav>>

\* what a read through pointer ptr yields: the params it points to, or,
\* when no constructor has set it, anything
Deref(ptr) == IF ptr = Uninit THEN NnpParams ELSE {ptr[1]}

NnpConv2d ==
  \E p \in Deref(ctx.backend.params_c_), kv \in KernelValues :
    NnpCommit("conv2d", nnp_conv2d(ctx, p, ctx.use_nnpack, kv))

NnpConv2dBack == NnpCommit("conv2d_back", nnp_conv2d_back(ctx))

NnpDeconv2d ==
  \E p \in Deref(ctx.backend.params_d_), kv \in KernelValues :
    NnpCommit("deconv2d", nnp_deconv2d(ctx, p, ctx.use_nnpack, kv))

NnpDeconv2dBack == NnpCommit("deconv2d_back", nnp_deconv2d_back(ctx))

NnpOther ==
  \E name \in {"matmul", "maxpool", "maxpool_back", "fully", "fully_back"} :
    NnpCommit(name, nnp_not_implemented(ctx))

NextNnp ==
  NnpConv2d \/ NnpConv2dBack \/ NnpDeconv2d \/ NnpDeconv2dBack \/ NnpOther

SpecNnp == InitNnp /\ [][NextNnp]_vars

-----------------------------------------------------------------------------
(* C16 *)

\* the buffers handed to a backend call
NnpBuffers(c) == <<c.in_data, c.out_data, c.out_grad, c.in_grad>>

\* the forward checks of p: the message thrown, "" when both pass
NnpCheck(p) ==
  IF ~p.has_bias THEN "NNPACK Convolution requires a bias term."
  ELSE IF p.w_stride # 1 \/ p.h_stride # 1
  THEN "NNPACK Convolution requires stride 1."
  ELSE ""

\* C16: nnp_backend's conv2d and deconv2d forward throw without touching a
\* buffer when has_bias is false (tested first) or a stride is not 1; the
\* backward variants, maxpool, fully and matmul always throw and modify no
\* buffer.
C16_NnpThrows ==
  [][/\ (lastOp'.op = "conv2d" /\ ctx.backend.params_c_ # Uninit
           /\ NnpCheck(ctx.backend.params_c_[1]) # "") =>
          /\ lastOp'.err = NnpCheck(ctx.backend.params_c_[1])
          /\ NnpBuffers(ctx') = NnpBuffers(ctx)
     /\ (lastOp'.op = "deconv2d" /\ ctx.backend.params_d_ # Uninit
           /\ NnpCheck(ctx.backend.params_d_[1]) # "") =>
          /\ lastOp'.err = NnpCheck(ctx.backend.params_d_[1])
          /\ NnpBuffers(ctx') = NnpBuffers(ctx)
     /\ lastOp'.op \in NnpOps \ {"conv2d", "deconv2d"} =>
          /\ lastOp'.err # ""
          /\ NnpBuffers(ctx') = NnpBuffers(ctx)
    ]_vars

\* conv2d has thrown for the missing bias on a convolution whose strides are
\* not 1 either, after an earlier forward call has written the output
C16_Witness ==
  /\ lastOp.op = "conv2d"
  /\ lastOp.err = "NNPACK Convolution requires a bias term."
  /\ ctx.backend.params_c_ # Uninit
  /\ ctx.backend.params_c_[1].w_stride = 2
  /\ ctx.out_data[2] = Fill1(2, 5)

-----------------------------------------------------------------------------
(* SpecDeconv: a deconvolutional layer is constructed and run forward.     *)

MaxIn == 2
MaxKernel == 3
MaxStride == 2

\* the constructor arguments: in_width, in_height, window_width,
\* window_height, out_channels, w_stride, h_stride, pad_type
DeconvArgs ==
  [in_width : 1..MaxIn, in_height : 1..MaxIn,
   window_width : 1..MaxKernel, window_height : 1..MaxKernel,
   out_channels : 1..2, w_stride : 1..MaxStride, h_stride : 1..MaxStride,
   pad_type : {"same", "valid"}]

InitDeconv ==
  /\ layers = NoLayers /\ edges = <<>> /\ events = <<>>
  /\ lastOp = NoOp
  /\ param = NewParameter("bias", 1, FALSE, 0)
  /\ dst = <<>>
  /\ trav = NoTrav
  /\ \E a \in DeconvArgs : ctx = [op |-> "deconv", args |-> a]

\* deconvolutional_layer(in_width, in_height, window_width, window_height,
\* in_channels = 1, out_channels, pad_type, has_bias, w_stride, h_stride)
DeconvConstruct ==
  /\ lastOp.op = "none"
  /\ ctx' = [op |-> "deconv", args |-> ctx.args,
             params |-> deconv_set_params(
                          shape3d(ctx.args.in_width, ctx.args.in_height, 1),
                          ctx.args.window_width, ctx.args.window_height,
                          ctx.args.out_channels, ctx.args.pad_type, TRUE,
                          ctx.args.w_stride, ctx.args.h_stride)]
  /\ lastOp' = Op("deconvolutional_layer")
  /\ UNCHANGED <<layers, edges, events, param, dst, trav>>

\* forward_propagation: the kernel leaves the full result in out, element
\* k holding k, and copy_and_unpad_output crops it
DeconvForward ==
  /\ lastOp.op = "deconvolutional_layer"
  /\ \E gv \in FreshValues :
       LET full == <<[k \in 1..shape_len(ctx.params.out) |-> k]>>
       IN  ctx' = [op |-> "deconv", args |-> ctx.args, params |-> ctx.params,
                   full |-> full,
                   out |-> copy_and_unpad_output(full, ctx.params, gv)]
  /\ lastOp' = Op("forward_propagation")
  /\ UNCHANGED <<layers, edges, events, param, dst, trav>>

NextDeconv == DeconvConstruct \/ DeconvForward

SpecDeconv == InitDeconv /\ [][NextDeconv]_vars

-----------------------------------------------------------------------------
(* C17 *)

\* C17: the output length of a deconvolutional layer along each axis,
\* before any cropping for `same` padding, is stride * (in - 1) + kernel, for
\* every input length, kernel size and stride of at least 1.
C17_OutLength ==
  lastOp.op # "none" =>
    /\ ctx.params.out.width_
         = ctx.args.w_stride * (ctx.args.in_width - 1) + ctx.args.window_width
    /\ ctx.params.out.height_
         = ctx.args.h_stride * (ctx.args.in_height - 1) + ctx.args.window_height

-----------------------------------------------------------------------------
(* C18 *)

-----------------------------------------------------------------------------
(* SpecPool: a max_pooling_layer is constructed.                           *)

MaxPoolIn == 4

\* the constructor arguments; a window of `valid` padding fits the input
PoolArgs ==
  {a \in [in_width : 1..MaxPoolIn, in_height : 1..2, in_channels : 1..2,
          pooling_size_x : 1..MaxKernel, pooling_size_y : 1..2,
          stride_x : 1..MaxStride, stride_y : 1..2,
          pad_type : {"same", "valid"}] :
     a.pad_type = "valid" =>
       a.pooling_size_x <= a.in_width /\ a.pooling_size_y <= a.in_height}

InitPool ==
  /\ layers = NoLayers /\ edges = <<>> /\ events = <<>>
  /\ lastOp = NoOp
  /\ param = NewParameter("bias", 1, FALSE, 0)
  /\ dst = <<>>
  /\ trav = NoTrav
  /\ \E a \in PoolArgs : ctx = [op |-> "maxpool", args |-> a]

\* max_pooling_layer(in_width, in_height, in_channels, pooling_size_x,
\* pooling_size_y, stride_x, stride_y, pad_type)
PoolConstruct ==
  /\ lastOp.op = "none"
  /\ LET a == ctx.args
         params == set_maxpool_params(a.in_width, a.in_height, a.in_channels,
                                      a.pooling_size_x, a.pooling_size_y,
                                      a.stride_x, a.stride_y, a.pad_type)
         tb == init_connection(params)
     IN  /\ ctx' = [op |-> "maxpool", args |-> a, params |-> params,
                    in2out_ |-> tb.in2out_, out2in_ |-> tb.out2in_]
         /\ lastOp' = [Op("max_pooling_layer") EXCEPT !.err = tb.err]
  /\ UNCHANGED <<layers, edges, events, param, dst, trav>>

\* max_pooling_layer(max_pooling_layer&& other): the members are moved from
\* other and init_connection is called on them
PoolMove ==
  /\ lastOp.op = "max_pooling_layer" /\ lastOp.err = ""
  /\ LET tb == init_connection_moved(ctx.in2out_, ctx.out2in_, ctx.params)
     IN  /\ ctx' = [ctx EXCEPT !.in2out_ = tb.in2out_, !.out2in_ = tb.out2in_]
         /\ lastOp' = [Op("move") EXCEPT !.err = tb.err]
  /\ UNCHANGED <<layers, edges, events, param, dst, trav>>

NextPool == PoolConstruct \/ PoolMove

SpecPool == InitPool /\ [][NextPool]_vars

-----------------------------------------------------------------------------
(* C19 *)

\* the elements of a sequence
Range(s) == {s[k] : k \in 1..Len(s)}

\* C19: after construction the two tables of a max-pooling layer agree:
\* input i is listed in out2in[o] exactly when in2out[i] = o, for every
\* pooling size, stride and padding, overlapping windows and inputs no
\* window covers included.
C19_TablesAgree ==
  lastOp.op = "max_pooling_layer" =>
    \A i \in 0..(Len(ctx.in2out_) - 1), o \in 0..(Len(ctx.out2in_) - 1) :
      i \in Range(ctx.out2in_[o + 1]) <=> ctx.in2out_[i + 1] = o

-----------------------------------------------------------------------------
(* SpecPar: the backward kernel run by one task for each sample, then      *)
(* merge_grads.                                                            *)

\* the samples of the batch, one task each
Samples == {1, 2}

\* the convolution: two channels in and out, input three wide, one kernel
\* two wide; (0, 1) connected or not
ParParams ==
  {[OpsConvParams EXCEPT !.has_bias = b, !.tbl[1][2] = t] : b, t \in BOOLEAN}

InitPar ==
  /\ layers = NoLayers /\ edges = <<>> /\ events = <<>>
  /\ lastOp = NoOp
  /\ param = NewParameter("bias", 1, FALSE, 0)
  /\ dst = <<>>
  /\ trav = NoTrav
  /\ \E params \in ParParams, parallelize \in BOOLEAN, f \in {0, 3}, q \in 1..2 :
       LET bufs ==
             [prev_delta |-> [s \in Samples |->
                                Fill1(shape_len(params.in_padded), f)],
              dW |-> [s \in Samples |-> Fill1(shape_len(params.weight), f)],
              db |-> [s \in Samples |-> Fill1(2, f)]]
       IN  ctx = [op |-> "par", params |-> params, parallelize |-> parallelize,
                  prev_out |-> [s \in Samples |->
                     [k \in 1..shape_len(params.in_padded) |->
                        Pattern(q, shape_len(params.in_padded))[k] + s]],
                  W |-> Pattern(3 - q, shape_len(params.weight)),
                  curr_delta |-> [s \in Samples |->
                     [k \in 1..shape_len(params.out) |-> k * s]],
                  prev_delta |-> bufs.prev_delta, dW |-> bufs.dW,
                  db |-> bufs.db, before |-> bufs,
                  pc |-> [s \in Samples |-> "load_prev_delta"],
                  local |-> [s \in Samples |-> <<>>],
                  writes |-> {}, merged |-> <<>>]

\* the task of a sample takes its next step
ParStep ==
  /\ \E sample \in Samples :
       /\ may_step(ctx, sample)
       /\ ctx' = task_step(ctx, sample)
  /\ lastOp' = Op("conv2d_op_custom")
  /\ UNCHANGED <<layers, edges, events, param, dst, trav>>

\* for_i has returned: merge_grads of the weight and the bias gradient
ParMerge ==
  /\ \A s \in Samples : ctx.pc[s] = "done"
  /\ lastOp.op = "conv2d_op_custom"
  /\ ctx' = [ctx EXCEPT !.merged = <<merge_grads([grad |-> ctx.dW], <<>>),
                                     merge_grads([grad |-> ctx.db], <<>>)>>]
  /\ lastOp' = Op("merge_grads")
  /\ UNCHANGED <<layers, edges, events, param, dst, trav>>

NextPar == ParStep \/ ParMerge

SpecPar == InitPar /\ [][NextPar]_vars

-----------------------------------------------------------------------------
(* C20 *)

\* what the kernel leaves when it runs the samples one after the other
Sequential(c) ==
  conv2d_op_custom_backward(c.prev_out, c.W, c.before.dW, c.before.db,
                            c.curr_delta, c.before.prev_delta, c.params)

\* C20: the parallel per-sample tasks of the convolution backward kernel
\* never write the same location: the task of sample s writes only row s of
\* prev_delta, dW and db; rows are summed across samples only by the
\* sequential merge_grads that follows; and the result is that of
\* sequential execution.
C20_TasksDisjoint ==
  /\ \A w \in ctx.writes : w[3] = w[1]
  /\ \A w1, w2 \in ctx.writes :
       (w1[2] = w2[2] /\ w1[3] = w2[3]) => w1[1] = w2[1]
  /\ lastOp.op # "merge_grads" => ctx.merged = <<>>
  /\ (\A s \in Samples : ctx.pc[s] = "done") =>
       LET seq == Sequential(ctx)
       IN  /\ [s \in Samples |-> ctx.prev_delta[s]] = seq.prev_delta
           /\ [s \in Samples |-> ctx.dW[s]] = seq.dW
           /\ [s \in Samples |-> ctx.db[s]] = seq.db
           /\ lastOp.op = "merge_grads" =>
                /\ ctx.merged[1] = [k \in 1..Len(seq.dW[1]) |->
                                      ColumnSum(seq.dW, k, Len(seq.dW))]
                /\ ctx.merged[2] = [k \in 1..Len(seq.db[1]) |->
                                      ColumnSum(seq.db, k, Len(seq.db))]

\* the two tasks ran under parallelize, with bias, each has written its
\* three rows, and merge_grads has summed the rows
C20_Witness ==
  /\ lastOp.op = "merge_grads"
  /\ ctx.parallelize /\ ctx.params.has_bias
  /\ Cardinality(ctx.writes) = 6
  /\ ctx.dW[1] # ctx.dW[2]
  /\ ctx.merged[1] # ctx.dW[1] /\ ctx.merged[1] # ctx.dW[2]
  /\ ctx.before.dW[1] = Fill1(8, 3)

-----------------------------------------------------------------------------
(* SpecOpt: an optimizer updates two weight vectors, is reset, and runs on *)
(* side by side with a newly constructed optimizer of the same kind.       *)

MaxUpdates == 3

OptKinds == {"momentum", "adagrad", "RMSprop", "adam"}

\* the weight vectors: vector 1 has one element, vector 2 has two
OptKeys == {1, 2}

InitOpt ==
  /\ layers = NoLayers /\ edges = <<>> /\ events = <<>>
  /\ lastOp = NoOp
  /\ param = NewParameter("bias", 1, FALSE, 0)
  /\ dst = <<>>
  /\ trav = NoTrav
  /\ \E kind \in OptKinds :
       ctx = [op |-> "opt", a |-> NewOptimizer(kind), b |-> NewOptimizer(kind),
              paired |-> FALSE, t |-> 0,
              Wa |-> [k \in OptKeys |-> [i \in 1..k |-> <<>>]],
              Wb |-> [k \in OptKeys |-> [i \in 1..k |-> <<>>]]]

\* a.update(dW, W) and, once the two run side by side, b.update(dW, W') on
\* b's copy of the weights
OptUpdate ==
  /\ ctx.t < MaxUpdates
  /\ \E key \in OptKeys, d \in {1, 2} :
       LET dW == [i \in 1..key |-> d]
           ra == optimizer_update(ctx.a, dW, ctx.Wa[key], key)
           rb == optimizer_update(ctx.b, dW, ctx.Wb[key], key)
       IN  /\ ctx' = [ctx EXCEPT !.a = ra.o, !.Wa[key] = ra.W, !.t = @ + 1,
                                 !.b = IF ctx.paired THEN rb.o ELSE @,
                                 !.Wb[key] = IF ctx.paired THEN rb.W ELSE @]
       /\ lastOp' = [Op("update") EXCEPT !.l = key]
  /\ UNCHANGED <<layers, edges, events, param, dst, trav>>

\* a.reset(); b is constructed and gets a copy of the weights
OptReset ==
  /\ ~ctx.paired
  /\ ctx' = [ctx EXCEPT !.a = optimizer_reset(ctx.a), !.b = NewOptimizer(ctx.a.kind),
                        !.Wb = ctx.Wa, !.paired = TRUE]
  /\ lastOp' = Op("reset")
  /\ UNCHANGED <<layers, edges, events, param, dst, trav>>

NextOpt == OptUpdate \/ OptReset

SpecOpt == InitOpt /\ [][NextOpt]_vars

-----------------------------------------------------------------------------
(* C21 *)

\* C21: the decay powers an Adam optimizer uses for the bias correction in
\* its t-th update() call, counted over all the calls on the instance, are
\* b1^t and b2^t; each call advances both by one factor.
C21_PowersOfT ==
  (ctx.a.kind = "adam" /\ ~ctx.paired /\ lastOp.op = "update") =>
    \A i \in 1..Len(ctx.Wa[lastOp.l]) :
      LET applied == ctx.Wa[lastOp.l][i]
          last == applied[Len(applied)]
      IN  last.b1_t = ctx.t /\ last.b2_t = ctx.t

-----------------------------------------------------------------------------
(* C22 *)

\* C22: after reset() a stateful optimizer behaves like a newly
\* constructed one with the same hyperparameters: run side by side on any
\* sequence of update() calls, both produce the same weights and hold the
\* same internal state.
C22_ResetIsFresh ==
  ctx.paired => (ctx.a = ctx.b /\ ctx.Wa = ctx.Wb)

-----------------------------------------------------------------------------
(* SpecReg: ops are registered on devices; the registry is reset.          *)

\* a CPU device without OpenCL support and two GPU devices
Devices ==
  {[id |-> 1, opencl |-> FALSE], [id |-> 2, opencl |-> TRUE],
   [id |-> 3, opencl |-> TRUE]}

\* two convolutional layers with the opencl engine, one with the internal
RegLayers ==
  {[id |-> 1, engine |-> "opencl"], [id |-> 2, engine |-> "opencl"],
   [id |-> 3, engine |-> "internal"]}

\* the singleton holds what earlier tests have left in it
InitReg ==
  /\ layers = NoLayers /\ edges = <<>> /\ events = <<>>
  /\ lastOp = NoOp
  /\ param = NewParameter("bias", 1, FALSE, 0)
  /\ dst = <<>>
  /\ trav = NoTrav
  /\ \E left \in {<<>>, <<<<2, 1>>>>, <<<<3, 2>>, <<2, 1>>>>} :
       ctx = [op |-> "reg", programs |-> left, again |-> 0]

\* ProgramManager::getInstance().reset()
RegReset ==
  /\ ctx' = [ctx EXCEPT !.programs = program_reset(ctx.programs), !.again = 0]
  /\ lastOp' = Op("reset")
  /\ UNCHANGED <<layers, edges, events, param, dst, trav>>

\* device.registerOp(l); again counts the calls since the last reset that
\* found their program registered already, up to 2
RegRegisterOp ==
  /\ \E device \in Devices, l \in RegLayers :
       LET r == registerOp(ctx.programs, device, l)
           known == r.err = "" /\ r.programs = ctx.programs
       IN  /\ ctx' = [ctx EXCEPT !.programs = r.programs,
                                 !.again = IF known /\ @ < 2 THEN @ + 1 ELSE @]
           /\ lastOp' = [Op("registerOp") EXCEPT !.l = l.id, !.hi = device.id,
                                                 !.flag = known, !.err = r.err]
  /\ UNCHANGED <<layers, edges, events, param, dst, trav>>

NextReg == RegReset \/ RegRegisterOp

SpecReg == InitReg /\ [][NextReg]_vars

-----------------------------------------------------------------------------
(* C23 *)

\* C23: after the program registry is reset the number of compiled
\* programs is 0; registering an op with the accelerated engine on a
\* capable device then raises it to 1; registering the same op on the same
\* device again, any number of times, leaves the number as it is.
C23_RegisterOnce ==
  [][/\ lastOp'.op = "reset" => num_programs(ctx'.programs) = 0
     /\ (lastOp'.op = "registerOp" /\ lastOp'.err = "") =>
          /\ num_programs(ctx.programs) = 0 => num_programs(ctx'.programs) = 1
          /\ (\E k \in 1..Len(ctx.programs) :
                ctx.programs[k] = <<lastOp'.hi, lastOp'.l>>) =>
               ctx'.programs = ctx.programs
          /\ Cardinality({ctx'.programs[k] : k \in 1..Len(ctx'.programs)})
               = num_programs(ctx'.programs)
    ]_vars

\* after a reset one op was registered on one GPU device and then twice
\* more: one program
C23_Witness ==
  /\ lastOp.op = "registerOp" /\ lastOp.flag
  /\ ctx.again = 2
  /\ ctx.programs = <<<<2, 1>>>>

-----------------------------------------------------------------------------
(* Element access of a tensor: SpecAt                                      *)

MaxDim == 2
MaxIndex == 2

AtShapes == UNION {[1..n -> 1..MaxDim] : n \in 1..3}

\* the index of each dimension is in range
index_in_range(shape, idx) ==
  \A k \in 1..Len(idx) : idx[k] < shape[Len(shape) - Len(idx) + k]

InitAt ==
  /\ layers = NoLayers /\ edges = <<>> /\ events = <<>>
  /\ lastOp = NoOp
  /\ param = NewParameter("bias", 1, FALSE, 0)
  /\ dst = <<>>
  /\ trav = NoTrav
  /\ \E shape \in AtShapes :
       ctx = [op |-> "at", shape |-> shape, idx |-> <<0>>, off |-> 0]

\* t.host_offset(idx...)
AtHostOffset ==
  /\ \E idx \in [1..Len(ctx.shape) -> 0..MaxIndex] :
       /\ ctx' = [ctx EXCEPT !.idx = idx, !.off = host_offset(ctx.shape, idx)]
       /\ lastOp' = Op("host_offset")
  /\ UNCHANGED <<layers, edges, events, param, dst, trav>>

\* t.host_iter(idx...)
AtHostIter ==
  /\ \E idx \in [1..Len(ctx.shape) -> 0..MaxIndex] :
       /\ ctx' = [ctx EXCEPT !.idx = idx, !.off = host_iter(ctx.shape, idx)]
       /\ lastOp' = Op("host_iter")
  /\ UNCHANGED <<layers, edges, events, param, dst, trav>>

\* t.host_at(idx...)
AtHostAt ==
  /\ \E idx \in [1..Len(ctx.shape) -> 0..MaxIndex] :
       \E got \in host_at(ctx.shape, idx) :
         /\ ctx' = [ctx EXCEPT !.idx = idx, !.off = got]
         /\ lastOp' = [Op("host_at") EXCEPT
                         !.err = IF got = -1 THEN "fault" ELSE "none"]
  /\ UNCHANGED <<layers, edges, events, param, dst, trav>>

NextAt == AtHostOffset \/ AtHostIter \/ AtHostAt

SpecAt == InitAt /\ [][NextAt]_vars

-----------------------------------------------------------------------------
(* C24 *)

\* C24: an element access (host_at, host_offset, host_iter) with an index
\* that is out of range for its dimension is reported as an error; it
\* never yields the offset of an element.
C24_OutOfRangeIsFatal ==
  (/\ lastOp.op \in {"host_at", "host_offset", "host_iter"}
   /\ ~index_in_range(ctx.shape, ctx.idx)) => lastOp.err # "none"

\* an access in range yields the row-major offset of its element
C24_InRangeOffset ==
  (/\ lastOp.op \in {"host_at", "host_offset", "host_iter"}
   /\ index_in_range(ctx.shape, ctx.idx)) =>
    /\ lastOp.err = "none"
    /\ ctx.off = host_offset_checked(ctx.shape, ctx.idx)
    /\ ctx.off < tensor_size(ctx.shape)

-----------------------------------------------------------------------------
(* SpecDeconvBack: a deconvolutional layer is constructed and its          *)
(* backward kernel is run on one sample.                                   *)

\* the connection tables of out_channels x in_channels: all connected, or
\* all but the pair of the last channels
DeconvTables(outc, inc) ==
  {[o \in 1..outc |-> [i \in 1..inc |-> TRUE]],
   [o \in 1..outc |-> [i \in 1..inc |-> ~(o = outc /\ i = inc /\ inc > 1)]]}

InitDeconvBack ==
  /\ layers = NoLayers /\ edges = <<>> /\ events = <<>>
  /\ lastOp = NoOp
  /\ param = NewParameter("bias", 1, FALSE, 0)
  /\ dst = <<>>
  /\ trav = NoTrav
  /\ \E a \in DeconvArgs, inc \in 1..2, has_bias \in BOOLEAN :
       \E tbl \in DeconvTables(a.out_channels, inc) :
         ctx = [op |-> "deconvback", args |-> a, in_channels |-> inc,
                has_bias |-> has_bias, tbl |-> tbl]

\* deconvolutional_layer(in_width, in_height, window_width, window_height,
\* in_channels, out_channels, connection_table, pad_type, has_bias,
\* w_stride, h_stride)
DeconvBackConstruct ==
  /\ lastOp.op = "none"
  /\ ctx' = [op |-> "deconvback", args |-> ctx.args, tbl |-> ctx.tbl,
             params |-> deconv_set_params(
                          shape3d(ctx.args.in_width, ctx.args.in_height,
                                  ctx.in_channels),
                          ctx.args.window_width, ctx.args.window_height,
                          ctx.args.out_channels, ctx.args.pad_type,
                          ctx.has_bias,
                          ctx.args.w_stride, ctx.args.h_stride)]
  /\ lastOp' = Op("deconvolutional_layer")
  /\ UNCHANGED <<layers, edges, events, param, dst, trav>>

\* tiny_deconv2d_back_kernel on the gradient of one sample
DeconvBackKernel ==
  /\ lastOp.op = "deconvolutional_layer"
  /\ ctx' = [op |-> "deconvback", args |-> ctx.args, tbl |-> ctx.tbl,
             params |-> ctx.params,
             grads |-> tiny_deconv2d_back_kernel(ctx.params, ctx.tbl)]
  /\ lastOp' = Op("back_kernel")
  /\ UNCHANGED <<layers, edges, events, param, dst, trav>>

NextDeconvBack == DeconvBackConstruct \/ DeconvBackKernel

SpecDeconvBack == InitDeconvBack /\ [][NextDeconvBack]_vars

-----------------------------------------------------------------------------
(* C25 *)

\* C25: in the backward kernel, for every connected pair (outc, inc),
\* input position (x, y) and kernel offset (wx, wy), the element of
\* curr_delta that is multiplied with W[outc, inc][wy][wx] and added to
\* prev_delta[inc][y][x] is the one at the output position
\* (x * w_stride + wx, y * h_stride + wy) of channel outc, addressed with
\* the row width of the output: the transpose of the forward scatter.
C25_TransposeOfScatter ==
  lastOp.op = "back_kernel" =>
    \A t \in ctx.grads.prev_delta :
      t.src = get_index(ctx.params.out, t.x * ctx.params.w_stride + t.wx,
                        t.y * ctx.params.h_stride + t.wy, t.outc)

-----------------------------------------------------------------------------
(* C30 *)

\* C30: in the backward kernel every index used to read curr_delta (delta
\* propagation, dW correlation, db sum) is smaller than the number of
\* elements of the declared output shape out_unpadded, for valid and same
\* padding and any stride, and every index of prev_delta, dW and db
\* written is in range.
C30_IndicesInRange ==
  lastOp.op = "back_kernel" =>
    /\ \A t \in ctx.grads.prev_delta \cup ctx.grads.dW \cup ctx.grads.db :
         t.src \in 0..(shape_len(ctx.params.out_unpadded) - 1)
    /\ \A t \in ctx.grads.prev_delta :
         t.dst \in 0..(shape_len(ctx.params.in) - 1)
    /\ \A t \in ctx.grads.dW :
         t.dst \in 0..(shape_len(ctx.params.weight) - 1)
    /\ \A t \in ctx.grads.db :
         t.dst \in 0..(ctx.params.out.depth_ - 1)

\* the indices written are in range
C30_WritesInRange ==
  lastOp.op = "back_kernel" =>
    /\ \A t \in ctx.grads.prev_delta :
         t.dst \in 0..(shape_len(ctx.params.in) - 1)
    /\ \A t \in ctx.grads.dW :
         t.dst \in 0..(shape_len(ctx.params.weight) - 1)
    /\ \A t \in ctx.grads.db :
         t.dst \in 0..(ctx.params.out.depth_ - 1)

-----------------------------------------------------------------------------
(* SpecEngine: a deconvolutional_layer is constructed with a backend and   *)
(* asked for its engine, run forward and backward, and given a new tag.    *)

InitEngine ==
  /\ layers = NoLayers /\ edges = <<>> /\ events = <<>>
  /\ lastOp = NoOp
  /\ param = NewParameter("bias", 1, FALSE, 0)
  /\ dst = <<>>
  /\ trav = NoTrav
  /\ ctx = [op |-> "engine", built |-> FALSE, E |-> "internal",
            l |-> deconvolutional_layer("internal"), got |-> Uninit,
            set |-> FALSE]

\* deconvolutional_layer(..., backend_type): init_backend throws for a tag
\* without kernels and no layer exists then
EngineConstruct ==
  /\ ~ctx.built
  /\ \E backend_type \in Engines :
       LET err == init_backend(backend_type)
       IN  /\ ctx' = IF err # "none" THEN ctx
                     ELSE [ctx EXCEPT !.built = TRUE, !.E = backend_type,
                                      !.l = deconvolutional_layer(backend_type)]
           /\ lastOp' = [Op("deconvolutional_layer") EXCEPT !.err = err]
  /\ UNCHANGED <<layers, edges, events, param, dst, trav>>

\* l.engine()
EngineGet ==
  /\ ctx.built
  /\ \E v \in layer_engine(ctx.l) : ctx' = [ctx EXCEPT !.got = <<v>>]
  /\ lastOp' = Op("engine")
  /\ UNCHANGED <<layers, edges, events, param, dst, trav>>

\* forward_propagation: fwd_ctx_.setEngine(layer::engine())
EngineForward ==
  /\ ctx.built
  /\ \E v \in layer_engine(ctx.l) : ctx' = [ctx EXCEPT !.l.fwd_engine = <<v>>]
  /\ lastOp' = Op("forward_propagation")
  /\ UNCHANGED <<layers, edges, events, param, dst, trav>>

\* back_propagation: bwd_ctx_.setEngine(layer::engine())
EngineBackward ==
  /\ ctx.built
  /\ \E v \in layer_engine(ctx.l) : ctx' = [ctx EXCEPT !.l.bwd_engine = <<v>>]
  /\ lastOp' = Op("back_propagation")
  /\ UNCHANGED <<layers, edges, events, param, dst, trav>>

\* l.set_backend_type(backend_type)
EngineSetBackendType ==
  /\ ctx.built
  /\ \E backend_type \in Engines :
       ctx' = [ctx EXCEPT !.l = set_backend_type(@, backend_type),
                          !.set = TRUE]
  /\ lastOp' = Op("set_backend_type")
  /\ UNCHANGED <<layers, edges, events, param, dst, trav>>

NextEngine ==
  \/ EngineConstruct \/ EngineGet \/ EngineForward \/ EngineBackward
  \/ EngineSetBackendType

SpecEngine == InitEngine /\ [][NextEngine]_vars

-----------------------------------------------------------------------------
(* C26 *)

\* C26: for a deconvolutional_layer constructed with backend E, until
\* set_backend_type is called, engine() returns E and every forward and
\* backward call sets the engine of its kernel context to E.
C26_EngineIsConstructed ==
  (ctx.built /\ ~ctx.set) =>
    /\ ctx.got \in {Uninit, <<ctx.E>>}
    /\ ctx.l.fwd_engine \in {Uninit, <<ctx.E>>}
    /\ ctx.l.bwd_engine \in {Uninit, <<ctx.E>>}

\* after set_backend_type(b), engine() returns b and the next forward and
\* backward calls set the context's engine to b
C26_EngineIsSet ==
  [][(ctx.l.backend_type_ # Uninit /\ ctx'.l.backend_type_ = ctx.l.backend_type_)
       => /\ ctx'.got # ctx.got => ctx'.got = ctx.l.backend_type_
          /\ ctx'.l.fwd_engine # ctx.l.fwd_engine
               => ctx'.l.fwd_engine = ctx.l.backend_type_
          /\ ctx'.l.bwd_engine # ctx.l.bwd_engine
               => ctx'.l.bwd_engine = ctx.l.backend_type_]_vars

-----------------------------------------------------------------------------
(* SpecGrad: compute() of the two gradient kernels on the context of a     *)
(* layer that owns one Parameter (no bias) or two.                         *)

InitGrad ==
  /\ layers = NoLayers /\ edges = <<>> /\ events = <<>>
  /\ lastOp = NoOp
  /\ param = NewParameter("bias", 1, FALSE, 0)
  /\ dst = <<>>
  /\ trav = NoTrav
  /\ \E kind \in {"FullyConnectedGradOp", "Conv2dGradOp"}, engine \in Engines,
        has_bias \in BOOLEAN, n \in 1..2, f \in {0, 3}, q \in 1..2 :
       ctx = [op |-> "grad", c |-> OpsContext(kind, engine, has_bias, n, f, q),
              parameters |-> IF has_bias THEN 2 ELSE 1, touched |-> <<>>]

\* compute(context): a call ith_parameter(i) with i past the layer's
\* Parameters is undefined, the call may complete or fault
GradCompute ==
  /\ lastOp.op = "none"
  /\ LET r == compute(ctx.c)
         touched == IF ctx.c.kind = "FullyConnectedGradOp"
                    THEN FullyConnectedGradOp_parameters(ctx.c)
                    ELSE Conv2dGradOp_parameters(ctx.c)
         past == \E k \in 1..Len(touched) : touched[k].i >= ctx.parameters
     IN  \E fault \in {FALSE, past} :
           /\ ctx' = [ctx EXCEPT !.c = IF fault THEN @ ELSE r.ctx,
                                 !.touched = touched]
           /\ lastOp' = [Op("compute") EXCEPT
                           !.err = IF fault THEN "fault" ELSE r.err]
  /\ UNCHANGED <<layers, edges, events, param, dst, trav>>

NextGrad == GradCompute

SpecGrad == InitGrad /\ [][NextGrad]_vars

-----------------------------------------------------------------------------
(* C27 *)

\* C27: compute() of FullyConnectedGradOp on a layer without bias (one
\* Parameter) reads and writes Parameter 0 only and never calls
\* ith_parameter(1), as Conv2dGradOp, which writes the bias gradient only
\* when has_bias.
C27_NoBiasNoSecondParameter ==
  (lastOp.op = "compute" /\ ~ctx.c.has_bias) =>
    \A k \in 1..Len(ctx.touched) : ctx.touched[k].i = 0

\* Conv2dGradOp stays inside the Parameters of its layer
C27_ConvInsideParameters ==
  (lastOp.op = "compute" /\ ctx.c.kind = "Conv2dGradOp") =>
    \A k \in 1..Len(ctx.touched) : ctx.touched[k].i < ctx.parameters

-----------------------------------------------------------------------------
(* C28 *)

\* the input indices of the window of output (x, y) of channel c
WindowInputs(params, x, y, c) ==
  {get_index(params.in, x * params.stride_x + dx, y * params.stride_y + dy, c) :
     <<dx, dy>> \in
       (0..(Min(params.pool_size_x, params.in.width_ - x * params.stride_x) - 1))
       \X (0..(Min(params.pool_size_y, params.in.height_ - y * params.stride_y) - 1))}

\* C28: for a max-pooling layer built by any construction path, move
\* construction included, each out2in[o] lists every input index of its
\* window exactly once, so fan_in_size() is the number of inputs in one
\* window.
C28_WindowListedOnce ==
  (lastOp.op \in {"max_pooling_layer", "move"} /\ lastOp.err = "") =>
    /\ \A c \in 0..(ctx.params.out.depth_ - 1),
          y \in 0..(ctx.params.out.height_ - 1),
          x \in 0..(ctx.params.out.width_ - 1) :
         LET row == ctx.out2in_[get_index(ctx.params.out, x, y, c) + 1]
         IN  /\ Range(row) = WindowInputs(ctx.params, x, y, c)
             /\ Len(row) = Cardinality(Range(row))
    /\ fan_in_size(ctx.out2in_)
         = Cardinality(WindowInputs(ctx.params, 0, 0, 0))

\* the constructor with arguments lists each window once
C28_ConstructedOnce ==
  (lastOp.op = "max_pooling_layer" /\ lastOp.err = "") =>
    /\ \A o \in 1..Len(ctx.out2in_) :
         Len(ctx.out2in_[o]) = Cardinality(Range(ctx.out2in_[o]))
    /\ fan_in_size(ctx.out2in_)
         = Cardinality(WindowInputs(ctx.params, 0, 0, 0))

-----------------------------------------------------------------------------
(* SpecLrn: forward_propagation of an lrn_layer on a batch.                *)

LrnArgs ==
  [in_width : 1..2, in_height : 1..2, in_channels : 1..2, local_size : {1, 3},
   region : {"across_channels", "within_channels"}]

InitLrn ==
  /\ layers = NoLayers /\ edges = <<>> /\ events = <<>>
  /\ lastOp = NoOp
  /\ param = NewParameter("bias", 1, FALSE, 0)
  /\ dst = <<>>
  /\ trav = NoTrav
  /\ \E a \in LrnArgs, batch \in 1..MaxBatch :
       ctx = [op |-> "lrn", args |-> a,
              shape |-> <<batch, a.in_width * a.in_height * a.in_channels>>,
              samples |-> <<>>, normalized |-> [s \in 1..batch |-> 0]]

\* l.forward_propagation(in_data, out_data); a subView of a row the tensor
\* does not have is undefined, the call may complete or fault
LrnForward ==
  /\ lastOp.op = "none"
  /\ LET r == lrn_forward_propagation(ctx.shape, ctx.args.region)
         past == \E k \in 1..Len(r.samples) : r.samples[k] >= ctx.shape[1]
     IN  \E fault \in {FALSE, past} :
           /\ ctx' = [ctx EXCEPT !.samples = r.samples,
                                 !.normalized = r.normalized]
           /\ lastOp' = [Op("forward_propagation") EXCEPT
                           !.err = IF fault THEN "fault" ELSE r.err]
  /\ UNCHANGED <<layers, edges, events, param, dst, trav>>

NextLrn == LrnForward

SpecLrn == InitLrn /\ [][NextLrn]_vars

-----------------------------------------------------------------------------
(* C29 *)

\* C29: forward_propagation of the LRN layer normalizes exactly one row
\* for each sample: the sample indices passed to subView range over
\* 0..batch_size-1, batch_size being the first dimension of the input
\* tensor, and never reach or exceed batch_size.
C29_OneRowPerSample ==
  (lastOp.op = "forward_propagation"
     /\ ctx.args.region = "across_channels") =>
    /\ \A k \in 1..Len(ctx.samples) : ctx.samples[k] < ctx.shape[1]
    /\ ctx.samples = [k \in 1..ctx.shape[1] |-> k - 1]
    /\ \A s \in 1..ctx.shape[1] : ctx.normalized[s] = 1

\* every row of the batch is normalized once, and the loop stays inside
\* the batch when a sample has one element
C29_RowsNormalized ==
  (lastOp.op = "forward_propagation"
     /\ ctx.args.region = "across_channels") =>
    /\ \A s \in 1..ctx.shape[1] : ctx.normalized[s] = 1
    /\ ctx.shape[2] = 1 => ctx.samples = [k \in 1..ctx.shape[1] |-> k - 1]

====
